---- MODULE Spec2Model ----
(***************************************************************************)
(* Structural inference and time-axis resolution of the semantic-model     *)
(* documentor (src/main.py, ComprehensiveModelDocumentor) and of its lite  *)
(* variant (src/json.py, LLMModelDocLite).                                 *)
(*                                                                         *)
(* Python values are tagged records: None, str, bool, int and float NaN.   *)
(* Strings are TLA+ strings; lower(), strip(), startswith and the `in`     *)
(* substring test are computed character by character.                     *)
(***************************************************************************)
EXTENDS Integers, Sequences, FiniteSets, TLC

\* ------------------------------------------------------------------
\* Python values
\* ------------------------------------------------------------------
NONE == [t |-> "none"]
NAN == [t |-> "nan"]
S(x) == [t |-> "str", s |-> x]
B(x) == [t |-> "bool", b |-> x]
N(x) == [t |-> "int", n |-> x]

IsStr(v) == v.t = "str"

\* Python truthiness: `if v`, `not v`, `v or ''`
Truthy(v) ==
    CASE v.t = "none" -> FALSE
      [] v.t = "nan" -> TRUE
      [] v.t = "str" -> Len(v.s) > 0
      [] v.t = "bool" -> v.b
      [] v.t = "int" -> v.n # 0

\* (v or '') for a value that is None or a string
StrOr(v) == IF IsStr(v) THEN v.s ELSE ""

\* ------------------------------------------------------------------
\* str methods
\* ------------------------------------------------------------------
UpperChars == "ABCDEFGHIJKLMNOPQRSTUVWXYZ"
LowerChars == "abcdefghijklmnopqrstuvwxyz"

UpperSet == {SubSeq(UpperChars, i, i) : i \in 1..26}

LowerMap ==
    [c \in UpperSet |->
        LET i == CHOOSE j \in 1..26 : SubSeq(UpperChars, j, j) = c
        IN SubSeq(LowerChars, i, i)]

LowerChar(c) == IF c \in UpperSet THEN LowerMap[c] ELSE c

RECURSIVE lower(_)
lower(s) ==
    IF Len(s) = 0 THEN ""
    ELSE LowerChar(SubSeq(s, 1, 1)) \o lower(SubSeq(s, 2, Len(s)))

RECURSIVE lstrip(_)
lstrip(s) ==
    IF Len(s) > 0 /\ SubSeq(s, 1, 1) = " " THEN lstrip(SubSeq(s, 2, Len(s))) ELSE s

RECURSIVE rstrip(_)
rstrip(s) ==
    IF Len(s) > 0 /\ SubSeq(s, Len(s), Len(s)) = " "
    THEN rstrip(SubSeq(s, 1, Len(s) - 1)) ELSE s

strip(s) == rstrip(lstrip(s))

startswith(s, p) == Len(s) >= Len(p) /\ SubSeq(s, 1, Len(p)) = p

\* sub in s
contains(s, sub) ==
    \E i \in 1..(Len(s) - Len(sub) + 1) : SubSeq(s, i, i + Len(sub) - 1) = sub

\* ------------------------------------------------------------------
\* Utils of ComprehensiveModelDocumentor
\* ------------------------------------------------------------------
TrueWords == {"true", "1", "yes", "y", "t"}

safe_bool(value) ==
    CASE value.t = "none" -> FALSE
      [] value.t = "nan" -> FALSE
      [] value.t = "str" -> lower(strip(value.s)) \in TrueWords
      [] value.t = "bool" -> value.b
      [] value.t = "int" -> value.n # 0

AutoDatePrefixes == {"localdatetable_", "datetabletemplate_"}

\* re.match(r'^(LocalDateTable_|DateTableTemplate_)', name, re.IGNORECASE)
auto_date_match(name) == \E p \in AutoDatePrefixes : startswith(lower(name), p)

\* the same test without re.IGNORECASE
is_auto_date_table_case_sensitive(name) ==
    IF ~Truthy(name) THEN FALSE
    ELSE startswith(name.s, "LocalDateTable_") \/ startswith(name.s, "DateTableTemplate_")

is_auto_date_table(name) ==
    IF ~Truthy(name) THEN FALSE ELSE auto_date_match(name.s)

\* a relationship record is None or a dict; dict.get of a missing key is None
IsRecordNone(relationship) == relationship.t = "none"

\* result "raised" | "true" | "false"
BoolStr(b) == IF b THEN "true" ELSE "false"

is_business_relationship(relationship) ==
    IF IsRecordNone(relationship) THEN "raised"
    ELSE IF ~safe_bool(relationship.is_active) THEN "false"
    ELSE IF is_auto_date_table(relationship.from_table)
            \/ is_auto_date_table(relationship.to_table) THEN "false"
    ELSE "true"

\* ------------------------------------------------------------------
\* Utils of LLMModelDocLite
\* ------------------------------------------------------------------
lite_b(v) ==
    CASE v.t = "none" -> FALSE
      [] v.t = "str" -> lower(strip(v.s)) \in TrueWords
      [] v.t = "nan" -> TRUE
      [] v.t = "bool" -> v.b
      [] v.t = "int" -> v.n # 0

lite_is_auto_table(name) ==
    IF ~Truthy(name) THEN FALSE ELSE auto_date_match(name.s)

lite_active_business_rel(r) ==
    IF IsRecordNone(r) THEN "raised"
    ELSE IF ~lite_b(r.is_active) THEN "false"
    ELSE BoolStr(~(lite_is_auto_table(r.from_table) \/ lite_is_auto_table(r.to_table)))


\* ------------------------------------------------------------------
\* TypeCoercionResolver
\* ------------------------------------------------------------------
NumberFlags ==
    {"int", "integer", "whole number", "decimal", "double", "fixed decimal", "currency", "number"}
DateFlags == {"date", "datetime", "timestamp", "time"}

coerce_type(data_type) ==
    LET lowered == lower(StrOr(data_type))
    IN IF \E flag \in NumberFlags : contains(lowered, flag) THEN "number"
       ELSE IF \E flag \in DateFlags : contains(lowered, flag) THEN "date"
       ELSE "text"

\* the preference turned round: text before number before date
select_join_type_text_first(left_type, right_type) ==
    IF "text" \in {left_type, right_type} THEN "text"
    ELSE IF "number" \in {left_type, right_type} THEN "number"
    ELSE "date"

select_join_type(left_type, right_type) ==
    IF "date" \in {left_type, right_type} THEN "date"
    ELSE IF "number" \in {left_type, right_type} THEN "number"
    ELSE "text"

\* ------------------------------------------------------------------
\* Ratios.  blank_fk / total_rows and 1 - orphan_fk / distinct_fk are kept as
\* exact fractions in lowest terms with a positive denominator; for the counts
\* the backend answers with here, the float comparisons against 0.95, 0.98,
\* 0.05 and 0.02 and between two scores decide as the exact fractions do.
\* ------------------------------------------------------------------
Abs(x) == IF x < 0 THEN -x ELSE x

RECURSIVE Gcd(_, _)
Gcd(a, b) == IF b = 0 THEN a ELSE Gcd(b, a % b)

Rat(n, d) ==
    LET g == Gcd(Abs(n), d)
    IN [t |-> "rat", n |-> n \div g, d |-> d \div g]

RatLess(a, b) == a.n * b.d < b.n * a.d
RatSub(a, b) == Rat(a.n * b.d - b.n * a.d, a.d * b.d)
RatMax(a, b) == IF RatLess(a, b) THEN b ELSE a
Zero == Rat(0, 1)
One == Rat(1, 1)

\* ------------------------------------------------------------------
\* RelationshipQualityAnalyzer (_relationship_quality_checks)
\* ------------------------------------------------------------------
\* _to_int_or_none of a result cell: None / NaN give None, an int is kept
to_int_or_none(value) == IF value.t = "int" THEN value ELSE NONE

\* col_type[(table, column)]: the dict keeps the last column record of a key
col_type_get(columns, table, column) ==
    LET hits == {i \in 1..Len(columns) :
                    columns[i].table_name = table /\ columns[i].column_name = column}
    IN IF hits = {} THEN NONE
       ELSE LET last == CHOOSE i \in hits : \A j \in hits : j <= i
            IN S(lower(StrOr(columns[last].data_type)))

\* the dual-key lint on the queue dimension
dual_key_lint(relationships) ==
    LET cols == {lower(relationships[i].to_column.s) : i \in
                    {j \in 1..Len(relationships) :
                        /\ safe_bool(relationships[j].is_active)
                        /\ Truthy(relationships[j].to_table)
                        /\ Truthy(relationships[j].to_column)
                        /\ relationships[j].to_table = S("vwpcse_dimqueue")}}
    IN "queuekey" \in cols /\ "queueid" \in cols

\* blank_fk, total_rows, distinct_fk of the first query: its outcome is
\* "raise", "empty" or a row
rows_cell(rows, field) ==
    IF rows.t = "row" THEN to_int_or_none(rows[field]) ELSE NONE

orphan_cell(orphan) ==
    IF orphan.t = "row" THEN to_int_or_none(orphan.orphan_fk) ELSE NONE

blank_ratio_of(blank_fk, total_rows) ==
    IF blank_fk # NONE /\ Truthy(total_rows) THEN Rat(blank_fk.n, total_rows.n) ELSE NONE

\* coverage taken as 0 when it cannot be computed
coverage_of_or_zero(orphan_fk, distinct_fk) ==
    IF orphan_fk # NONE /\ Truthy(distinct_fk)
    THEN RatSub(One, Rat(orphan_fk.n, distinct_fk.n)) ELSE Zero

coverage_of(orphan_fk, distinct_fk) ==
    IF orphan_fk # NONE /\ Truthy(distinct_fk)
    THEN RatSub(One, Rat(orphan_fk.n, distinct_fk.n)) ELSE NONE

\* the yellow test on coverage with the comparison turned round
severity_of_flipped(coverage, blank_ratio) ==
    IF (coverage # NONE /\ RatLess(coverage, Rat(95, 100)))
       \/ (blank_ratio # NONE /\ RatLess(Rat(5, 100), blank_ratio)) THEN "red"
    ELSE IF (coverage # NONE /\ RatLess(Rat(98, 100), coverage))
       \/ (blank_ratio # NONE /\ RatLess(Rat(2, 100), blank_ratio)) THEN "yellow"
    ELSE "green"

severity_of(coverage, blank_ratio) ==
    IF (coverage # NONE /\ RatLess(coverage, Rat(95, 100)))
       \/ (blank_ratio # NONE /\ RatLess(Rat(5, 100), blank_ratio)) THEN "red"
    ELSE IF (coverage # NONE /\ RatLess(coverage, Rat(98, 100)))
       \/ (blank_ratio # NONE /\ RatLess(Rat(2, 100), blank_ratio)) THEN "yellow"
    ELSE "green"

indicator_of(coverage, blank_ratio) ==
    LET i1 == IF blank_ratio # NONE THEN RatMax(Zero, blank_ratio) ELSE Zero
    IN IF coverage # NONE THEN RatMax(i1, RatSub(One, coverage)) ELSE i1

\* f"{table}[{column}]"
ColumnRef(table, column) == table.s \o "[" \o column.s \o "]"

\* the normalized types of the two endpoint columns
endpoint_types(columns, relationship) ==
    [from |-> coerce_type(col_type_get(columns, relationship.from_table, relationship.from_column)),
     to |-> coerce_type(col_type_get(columns, relationship.to_table, relationship.to_column))]

\* the detail entry of one business relationship, given the two query outcomes
detail_entry(relationship, types, rows, orphan) ==
    LET blank_fk == rows_cell(rows, "blank_fk")
        total_rows == rows_cell(rows, "total_rows")
        distinct_fk == rows_cell(rows, "distinct_fk")
        orphan_fk == orphan_cell(orphan)
        blank_ratio == blank_ratio_of(blank_fk, total_rows)
        coverage == coverage_of(orphan_fk, distinct_fk)
    IN [from |-> ColumnRef(relationship.from_table, relationship.from_column),
        to |-> ColumnRef(relationship.to_table, relationship.to_column),
        blank_fk |-> blank_fk,
        orphan_fk |-> orphan_fk,
        blank_ratio |-> blank_ratio,
        coverage |-> coverage,
        severity |-> severity_of(coverage, blank_ratio),
        type_mismatch |-> (types.from # types.to),
        comparison_type |-> select_join_type(types.from, types.to)]

severity_order(sev) ==
    CASE sev = "red" -> 0 [] sev = "yellow" -> 1 [] sev = "green" -> 2 [] OTHER -> 3

\* the sort key with the score ascending (the minus sign dropped)
key_less_score_ascending(a, b) ==
    \/ severity_order(a.entry.severity) < severity_order(b.entry.severity)
    \/ /\ severity_order(a.entry.severity) = severity_order(b.entry.severity)
       /\ RatLess(a.score, b.score)

\* the sort key (severity_order, -score), compared as Python compares tuples
key_less(a, b) ==
    \/ severity_order(a.entry.severity) < severity_order(b.entry.severity)
    \/ /\ severity_order(a.entry.severity) = severity_order(b.entry.severity)
       /\ RatLess(b.score, a.score)

\* sorted() is stable: an item goes behind every item whose key is not greater
RECURSIVE insert_sorted(_, _)
insert_sorted(x, seq) ==
    IF seq = <<>> THEN <<x>>
    ELSE IF key_less(x, Head(seq)) THEN <<x>> \o seq
    ELSE <<Head(seq)>> \o insert_sorted(x, Tail(seq))

RECURSIVE sorted_by_key(_)
sorted_by_key(seq) ==
    IF seq = <<>> THEN <<>>
    ELSE insert_sorted(seq[Len(seq)], sorted_by_key(SubSeq(seq, 1, Len(seq) - 1)))

TopK == 10

\* summary_sorted[:10]
top_summary_of(seq) ==
    LET summary_sorted == sorted_by_key(seq)
    IN SubSeq(summary_sorted, 1, IF Len(summary_sorted) < TopK THEN Len(summary_sorted) ELSE TopK)

\* ------------------------------------------------------------------
\* Metadata extraction (_extract_complete_metadata)
\* ------------------------------------------------------------------
\* dict.get(key): None when the key is absent
get(rec, key) == IF key \in DOMAIN rec THEN rec[key] ELSE NONE

\* str(v), as an f-string formats a value
pystr(v) ==
    CASE v.t = "str" -> v.s
      [] v.t = "none" -> "None"
      [] v.t = "nan" -> "nan"
      [] v.t = "bool" -> (IF v.b THEN "True" ELSE "False")
      [] v.t = "int" -> ToString(v.n)

\* the four categories without a fallback query and the two with one
PrimaryCategories == <<"tables", "columns", "measures", "relationships">>
FallbackCategories == <<"hierarchies", "roles">>

\* the records of the backend whatever the outcome of the fetch
run_with_fallback_regardless(backend, key, outcome) == backend[key]

\* run_with_fallback(key): the outcome of the fetch is "info" (the INFO.VIEW
\* query answered), "fallback" (it failed and the TMSCHEMA query answered) or
\* "failed"; the TMSCHEMA answer carries the same records
run_with_fallback(backend, key, outcome) ==
    IF outcome[key] = "failed" THEN <<>> ELSE backend[key]

fetch_error(key) ==
    IF \E i \in 1..Len(FallbackCategories) : FallbackCategories[i] = key
    THEN key \o " not available (INFO.VIEW & TMSCHEMA failed)"
    ELSE key \o " not available (INFO.VIEW failed)"

\* md['errors'] in the order the categories are fetched
fetch_errors(outcome) ==
    LET order == PrimaryCategories \o FallbackCategories
        failed == SelectSeq(order, LAMBDA k : outcome[k] = "failed")
    IN [i \in 1..Len(failed) |-> fetch_error(failed[i])]

\* auto_date_pattern.match(t.get('table_name', '') or '')
table_is_auto_date(t) == auto_date_match(StrOr(get(t, "table_name")))

auto_date_tables_of(tables) ==
    LET hits == SelectSeq(tables, table_is_auto_date)
    IN [i \in 1..Len(hits) |-> get(hits[i], "table_name")]

\* the same filter without the test for auto-generated calendar tables
business_tables_of_visible(tables) ==
    SelectSeq(tables, LAMBDA t : ~safe_bool(get(t, "is_hidden")))

business_tables_of(tables) ==
    SelectSeq(tables, LAMBDA t : ~table_is_auto_date(t) /\ ~safe_bool(get(t, "is_hidden")))

extract_complete_metadata(backend, outcome) ==
    LET tables == run_with_fallback(backend, "tables", outcome)
    IN [tables |-> tables,
        columns |-> run_with_fallback(backend, "columns", outcome),
        measures |-> run_with_fallback(backend, "measures", outcome),
        relationships |-> run_with_fallback(backend, "relationships", outcome),
        hierarchies |-> run_with_fallback(backend, "hierarchies", outcome),
        roles |-> run_with_fallback(backend, "roles", outcome),
        errors |-> fetch_errors(outcome),
        auto_date_tables |-> auto_date_tables_of(tables),
        business_tables |-> business_tables_of(tables)]

\* ------------------------------------------------------------------
\* TableClassifier (_classify_table)
\* ------------------------------------------------------------------
ClassifierNumericFlags ==
    {"int", "integer", "whole number", "decimal", "fixed decimal", "double", "float",
     "number", "currency"}
ClassifierTextFlags == {"text", "string"}

\* any(flag in (data_type or '').lower() for flag in flags)
has_flag(data_type, flags) ==
    LET lowered == lower(StrOr(data_type))
    IN \E flag \in flags : contains(lowered, flag)

Count(seq, P(_)) == Cardinality({i \in 1..Len(seq) : P(seq[i])})

columns_of(table_name, columns) ==
    SelectSeq(columns, LAMBDA c : get(c, "table_name") = table_name)

\* outgoing counted over every listed relationship
outgoing_of_any(table_name, md) ==
    Count(md.relationships, LAMBDA r : get(r, "from_table") = table_name)

outgoing_of(table_name, md) ==
    Count(md.relationships,
          LAMBDA r : /\ get(r, "from_table") = table_name
                     /\ safe_bool(get(r, "is_active"))
                     /\ ~is_auto_date_table(get(r, "to_table")))

incoming_of(table_name, md) ==
    Count(md.relationships,
          LAMBDA r : /\ get(r, "to_table") = table_name
                     /\ safe_bool(get(r, "is_active"))
                     /\ ~is_auto_date_table(get(r, "from_table")))

\* _looks_like_date_dimension deciding on the name alone
looks_like_date_dimension_by_name(table_name, columns, measures) ==
    LET name_lc == lower(StrOr(table_name))
        pass_name == \E k \in {"dimdate", "date", "calendar"} : contains(name_lc, k)
        has_few_measures == Count(measures, LAMBDA m : get(m, "table_name") = table_name) <= 1
    IN pass_name /\ has_few_measures

looks_like_date_dimension(table_name, columns, measures) ==
    LET name_lc == lower(StrOr(table_name))
        pass_name == \E k \in {"dimdate", "date", "calendar"} : contains(name_lc, k)
        cols == columns_of(table_name, columns)
        has_many_date_like ==
            Count(cols, LAMBDA c : contains(lower(StrOr(get(c, "data_type"))), "date")) >= 2
        has_few_measures == Count(measures, LAMBDA m : get(m, "table_name") = table_name) <= 1
    IN (pass_name \/ has_many_date_like) /\ has_few_measures

\* _classify_table without its last line: a table that matches no rule gets None
classify_table_no_default(table_name, md) ==
    LET name_lc == lower(StrOr(table_name))
        cols == columns_of(table_name, md.columns)
        outgoing == outgoing_of(table_name, md)
        incoming == incoming_of(table_name, md)
        numeric_cols == Count(cols, LAMBDA c : has_flag(get(c, "data_type"), ClassifierNumericFlags))
        text_cols == Count(cols, LAMBDA c : has_flag(get(c, "data_type"), ClassifierTextFlags))
    IN IF startswith(name_lc, "vwpcse_fact") \/ startswith(name_lc, "fact")
       THEN (IF Len(cols) <= 3 /\ outgoing >= 2 /\ incoming >= 2 THEN S("bridge") ELSE S("fact"))
       ELSE IF looks_like_date_dimension(table_name, md.columns, md.measures) THEN S("dimension")
       ELSE IF outgoing >= 2 THEN S("fact")
       ELSE IF incoming > outgoing \/ text_cols > numeric_cols THEN S("dimension")
       ELSE IF Len(cols) > 0 /\ Len(cols) <= 3 /\ outgoing >= 2 THEN S("bridge")
       ELSE NONE

\* _classify_table with the bridge test of the structural rules ahead of the
\* fact test
classify_table_bridge_first(table_name, md) ==
    LET name_lc == lower(StrOr(table_name))
        cols == columns_of(table_name, md.columns)
        outgoing == outgoing_of(table_name, md)
        incoming == incoming_of(table_name, md)
        numeric_cols == Count(cols, LAMBDA c : has_flag(get(c, "data_type"), ClassifierNumericFlags))
        text_cols == Count(cols, LAMBDA c : has_flag(get(c, "data_type"), ClassifierTextFlags))
    IN IF startswith(name_lc, "vwpcse_fact") \/ startswith(name_lc, "fact")
       THEN (IF Len(cols) <= 3 /\ outgoing >= 2 /\ incoming >= 2 THEN S("bridge") ELSE S("fact"))
       ELSE IF looks_like_date_dimension(table_name, md.columns, md.measures) THEN S("dimension")
       ELSE IF Len(cols) > 0 /\ Len(cols) <= 3 /\ outgoing >= 2 THEN S("bridge")
       ELSE IF outgoing >= 2 THEN S("fact")
       ELSE IF incoming > outgoing \/ text_cols > numeric_cols THEN S("dimension")
       ELSE S("other")

\* _classify_table with the date-dimension test ahead of the naming hint
classify_table_date_first(table_name, md) ==
    LET name_lc == lower(StrOr(table_name))
        cols == columns_of(table_name, md.columns)
        outgoing == outgoing_of(table_name, md)
        incoming == incoming_of(table_name, md)
        numeric_cols == Count(cols, LAMBDA c : has_flag(get(c, "data_type"), ClassifierNumericFlags))
        text_cols == Count(cols, LAMBDA c : has_flag(get(c, "data_type"), ClassifierTextFlags))
    IN IF looks_like_date_dimension(table_name, md.columns, md.measures) THEN S("dimension")
       ELSE IF startswith(name_lc, "vwpcse_fact") \/ startswith(name_lc, "fact")
       THEN (IF Len(cols) <= 3 /\ outgoing >= 2 /\ incoming >= 2 THEN S("bridge") ELSE S("fact"))
       ELSE IF outgoing >= 2 THEN S("fact")
       ELSE IF incoming > outgoing \/ text_cols > numeric_cols THEN S("dimension")
       ELSE IF Len(cols) > 0 /\ Len(cols) <= 3 /\ outgoing >= 2 THEN S("bridge")
       ELSE S("other")

classify_table(table_name, md) ==
    LET name_lc == lower(StrOr(table_name))
        cols == columns_of(table_name, md.columns)
        outgoing == outgoing_of(table_name, md)
        incoming == incoming_of(table_name, md)
        numeric_cols == Count(cols, LAMBDA c : has_flag(get(c, "data_type"), ClassifierNumericFlags))
        text_cols == Count(cols, LAMBDA c : has_flag(get(c, "data_type"), ClassifierTextFlags))
    IN IF startswith(name_lc, "vwpcse_fact") \/ startswith(name_lc, "fact")
       THEN (IF Len(cols) <= 3 /\ outgoing >= 2 /\ incoming >= 2 THEN S("bridge") ELSE S("fact"))
       ELSE IF looks_like_date_dimension(table_name, md.columns, md.measures) THEN S("dimension")
       ELSE IF outgoing >= 2 THEN S("fact")
       ELSE IF incoming > outgoing \/ text_cols > numeric_cols THEN S("dimension")
       ELSE IF Len(cols) > 0 /\ Len(cols) <= 3 /\ outgoing >= 2 THEN S("bridge")
       ELSE S("other")

\* ------------------------------------------------------------------
\* TimeAxisResolver (_detect_default_time_key, _select_dim_date_column,
\* _match_date_column_for_key)
\* ------------------------------------------------------------------
Raised == [t |-> "raised"]

RECURSIVE detect_from(_, _, _)
detect_from(fact_table, relationships, i) ==
    IF i > Len(relationships) THEN NONE
    ELSE LET relationship == relationships[i]
             business == is_business_relationship(relationship)
         IN IF business = "raised" THEN Raised
            ELSE IF \/ business # "true"
                    \/ get(relationship, "from_table") # fact_table
                    \/ ~Truthy(get(relationship, "to_table"))
                 THEN detect_from(fact_table, relationships, i + 1)
            ELSE LET to_table == get(relationship, "to_table")
                     from_column == get(relationship, "from_column")
                     to_column == IF Truthy(get(relationship, "to_column"))
                                  THEN get(relationship, "to_column") ELSE S("DateKey")
                 IN IF /\ \/ contains(lower(to_table.s), "dimdate")
                          \/ contains(lower(to_table.s), "calendar")
                       /\ Truthy(from_column)
                    THEN [t |-> "tuple", fact_key |-> from_column, dim_table |-> to_table,
                          dim_key |-> to_column]
                    ELSE detect_from(fact_table, relationships, i + 1)

\* Raised for an empty fact name, None when no relationship qualifies, else the
\* (fact key, date dimension, dimension key) of the first that does
detect_default_time_key(fact_table, md) ==
    IF ~Truthy(fact_table) THEN Raised ELSE detect_from(fact_table, md.relationships, 1)

\* the columns of a table whose declared type mentions the given words
typed_columns(table, columns, words) ==
    SelectSeq(columns,
              LAMBDA c : /\ get(c, "table_name") = table
                         /\ \E w \in words : contains(lower(StrOr(get(c, "data_type"))), w))

names_of(columns) == [i \in 1..Len(columns) |-> get(columns[i], "column_name")]

InSeq(x, seq) == \E i \in 1..Len(seq) : seq[i] = x

First(seq, P(_)) == seq[CHOOSE i \in 1..Len(seq) : P(seq[i]) /\ \A j \in 1..(i - 1) : ~P(seq[j])]

select_dim_date_column(dim_table, md) ==
    IF ~Truthy(dim_table) THEN NONE
    ELSE LET candidates == names_of(typed_columns(dim_table, md.columns, {"date", "time"}))
             preferred == <<S("CalendarDate"), S("Date"), S("DateValue")>>
         IN IF candidates = <<>> THEN NONE
            ELSE IF \E i \in 1..3 : InSeq(preferred[i], candidates)
                 THEN First(preferred, LAMBDA p : InSeq(p, candidates))
            ELSE candidates[1]

\* str.replace(ch, '') for the characters of drop
RECURSIVE without_chars(_, _)
without_chars(s, drop) ==
    IF Len(s) = 0 THEN ""
    ELSE (IF SubSeq(s, 1, 1) \in drop THEN "" ELSE SubSeq(s, 1, 1))
            \o without_chars(SubSeq(s, 2, Len(s)), drop)

\* re.sub(r'key$', '', key_col, flags=re.IGNORECASE)
strip_key_suffix(s) ==
    IF Len(s) >= 3 /\ lower(SubSeq(s, Len(s) - 2, Len(s))) = "key"
    THEN SubSeq(s, 1, Len(s) - 3) ELSE s

TimePreferences ==
    <<"submitted", "sent", "closed", "created", "resolved", "calendar", "date", "time">>

match_date_column_for_key(fact, key_col, md) ==
    IF ~Truthy(fact) \/ ~Truthy(key_col) THEN NONE
    ELSE LET base == lower(without_chars(strip_key_suffix(key_col.s), {"_"}))
             originals == names_of(typed_columns(fact, md.columns, {"date"}))
             normalized(name) == lower(without_chars(StrOr(name), {"_", " "}))
             hits(word) == \E i \in 1..Len(originals) : contains(normalized(originals[i]), word)
         IN IF originals = <<>> THEN NONE
            ELSE IF Len(base) > 0 /\ hits(base)
                 THEN First(originals, LAMBDA o : contains(normalized(o), base))
            ELSE IF \E p \in 1..Len(TimePreferences) : hits(TimePreferences[p])
                 THEN LET word == First(TimePreferences, hits)
                      IN First(originals, LAMBDA o : contains(normalized(o), word))
            ELSE originals[1]

\* ------------------------------------------------------------------
\* Structure analysis (_analyze_model_structure)
\* ------------------------------------------------------------------
\* a dict in insertion order: a sequence of [key, value] with distinct keys
dict_has(d, k) == \E i \in 1..Len(d) : d[i].key = k
dict_get(d, k) == d[CHOOSE i \in 1..Len(d) : d[i].key = k].value
dict_set(d, k, v) ==
    IF dict_has(d, k)
    THEN [i \in 1..Len(d) |-> IF d[i].key = k THEN [key |-> k, value |-> v] ELSE d[i]]
    ELSE Append(d, [key |-> k, value |-> v])
dict_keys(d) == [i \in 1..Len(d) |-> d[i].key]

\* [n for n, t in table_types.items() if t == kind]
tables_of_type(table_types, kind) ==
    dict_keys(SelectSeq(table_types, LAMBDA e : e.value = S(kind)))

RECURSIVE table_types_upto(_, _)
table_types_upto(md, n) ==
    IF n = 0 THEN <<>>
    ELSE LET name == get(md.business_tables[n], "table_name")
         IN dict_set(table_types_upto(md, n - 1), name, classify_table(name, md))

\* every active relationship of the fact outside the calendar tables, whatever
\* its target is classified as
star_edges_any_target(fact, dim_tables, md) ==
    LET edges == SelectSeq(md.relationships,
                    LAMBDA rel : /\ safe_bool(get(rel, "is_active"))
                                 /\ ~is_auto_date_table(get(rel, "from_table"))
                                 /\ ~is_auto_date_table(get(rel, "to_table"))
                                 /\ get(rel, "from_table") = fact)
    IN [i \in 1..Len(edges) |->
          [dimension_table |-> get(edges[i], "to_table"),
           join_key |-> pystr(get(edges[i], "from_column")) \o " -> "
                           \o pystr(get(edges[i], "to_column")),
           cardinality |-> pystr(get(edges[i], "from_cardinality")) \o "-"
                              \o pystr(get(edges[i], "to_cardinality"))]]

\* the relationships listed as dimensions of one fact
star_edges(fact, dim_tables, md) ==
    LET edges == SelectSeq(md.relationships,
                    LAMBDA rel : /\ safe_bool(get(rel, "is_active"))
                                 /\ ~is_auto_date_table(get(rel, "from_table"))
                                 /\ ~is_auto_date_table(get(rel, "to_table"))
                                 /\ get(rel, "from_table") = fact
                                 /\ InSeq(get(rel, "to_table"), dim_tables))
    IN [i \in 1..Len(edges) |->
          [dimension_table |-> get(edges[i], "to_table"),
           join_key |-> pystr(get(edges[i], "from_column")) \o " -> "
                           \o pystr(get(edges[i], "to_column")),
           cardinality |-> pystr(get(edges[i], "from_cardinality")) \o "-"
                              \o pystr(get(edges[i], "to_cardinality"))]]

star_schema_of(table_types, md) ==
    LET fact_tables == tables_of_type(table_types, "fact")
        dim_tables == tables_of_type(table_types, "dimension")
    IN [i \in 1..Len(fact_tables) |->
          [key |-> fact_tables[i],
           value |-> [dimensions |-> star_edges(fact_tables[i], dim_tables, md),
                      relationships |-> <<>>]]]

\* many-to-one, one-to-many, one-to-one, else many-to-many
determine_relationship_type(rel) ==
    LET fc == lower(StrOr(get(rel, "from_cardinality")))
        tc == lower(StrOr(get(rel, "to_cardinality")))
    IN IF fc = "many" /\ tc = "one" THEN "many-to-one"
       ELSE IF fc = "one" /\ tc = "many" THEN "one-to-many"
       ELSE IF fc = "one" /\ tc = "one" THEN "one-to-one"
       ELSE "many-to-many"

key_relationships_of(md) ==
    LET kept == SelectSeq(md.relationships,
                    LAMBDA rel : /\ safe_bool(get(rel, "is_active"))
                                 /\ ~is_auto_date_table(get(rel, "from_table"))
                                 /\ ~is_auto_date_table(get(rel, "to_table")))
    IN [i \in 1..Len(kept) |->
          [from |-> pystr(get(kept[i], "from_table")) \o "[" \o pystr(get(kept[i], "from_column")) \o "]",
           to |-> pystr(get(kept[i], "to_table")) \o "[" \o pystr(get(kept[i], "to_column")) \o "]",
           type |-> determine_relationship_type(kept[i]),
           filter_direction |-> IF "cross_filter_direction" \in DOMAIN kept[i]
                                THEN kept[i].cross_filter_direction ELSE S("Single")]]

\* sorted(names, key=closed first)[0]
closed_first(names) ==
    LET closed(name) == Truthy(name) /\ contains(lower(name.s), "closed")
    IN IF \E i \in 1..Len(names) : closed(names[i]) THEN First(names, closed) ELSE names[1]

\* the same record with has_date_axis taken from the date column found
fact_time_axis_by_column(fact, md) ==
    LET key_info == detect_default_time_key(fact, md)
        fact_columns == names_of(typed_columns(fact, md.columns, {"date"}))
    IN [default_time_key |-> IF key_info # NONE THEN key_info.fact_key ELSE NONE,
        date_dimension |-> IF key_info # NONE THEN key_info.dim_table ELSE NONE,
        date_dimension_key |-> IF key_info # NONE THEN key_info.dim_key ELSE NONE,
        default_time_column |-> IF fact_columns # <<>> THEN closed_first(fact_columns) ELSE NONE,
        has_date_axis |-> fact_columns # <<>>]

fact_time_axis(fact, md) ==
    LET key_info == detect_default_time_key(fact, md)
        matched == IF key_info # NONE
                   THEN match_date_column_for_key(fact, key_info.fact_key, md) ELSE NONE
        fact_columns == names_of(typed_columns(fact, md.columns, {"date"}))
        default_date_column ==
            IF Truthy(matched) THEN matched
            ELSE IF fact_columns # <<>> THEN closed_first(fact_columns)
            ELSE matched
    IN [default_time_key |-> IF key_info # NONE THEN key_info.fact_key ELSE NONE,
        date_dimension |-> IF key_info # NONE THEN key_info.dim_table ELSE NONE,
        date_dimension_key |-> IF key_info # NONE THEN key_info.dim_key ELSE NONE,
        default_time_column |-> default_date_column,
        has_date_axis |-> key_info # NONE]

\* total_count of _analyze_measures; the grouping of the measures by the text
\* of their expression is not part of the model
measure_summary_of(measures) ==
    [total_count |-> Count(measures, LAMBDA m : ~safe_bool(get(m, "is_hidden")))]

\* the analysis dict, or Raised when a fact table has an empty name
analyze_model_structure(md) ==
    LET table_types == table_types_upto(md, Len(md.business_tables))
        fact_tables == tables_of_type(table_types, "fact")
    IN IF \E i \in 1..Len(fact_tables) : detect_default_time_key(fact_tables[i], md) = Raised
       THEN Raised
       ELSE [t |-> "dict",
             table_types |-> table_types,
             star_schema |-> star_schema_of(table_types, md),
             key_relationships |-> key_relationships_of(md),
             fact_time_axes |->
                 [i \in 1..Len(fact_tables) |->
                     [key |-> fact_tables[i], value |-> fact_time_axis(fact_tables[i], md)]],
             measure_summary |-> measure_summary_of(md.measures)]

\* ------------------------------------------------------------------
\* TimeAnchorProfiler (_profile_time_anchor_for_table)
\* ------------------------------------------------------------------
dtype_is_date(data_type) == has_flag(data_type, {"date", "datetime", "timestamp"})

\* _score, times ten
score(column_name) ==
    LET lowered == lower(StrOr(column_name))
        base == IF contains(lowered, "submitted") THEN 60
                ELSE IF contains(lowered, "sent") THEN 50
                ELSE IF contains(lowered, "closed") THEN 40
                ELSE IF contains(lowered, "created") THEN 35
                ELSE IF contains(lowered, "resolved") THEN 32
                ELSE IF contains(lowered, "calendar") THEN 30
                ELSE IF contains(lowered, "date") THEN 20
                ELSE 10
    IN IF contains(lowered, "time") /\ ~contains(lowered, "date") THEN base - 6 ELSE base

\* normalized_type_map.get(candidate, 'text'): the last column record of that
\* name decides
normalized_type_of(table_columns, candidate) ==
    LET hits == {i \in 1..Len(table_columns) : get(table_columns[i], "column_name") = candidate}
    IN IF hits = {} \/ ~Truthy(candidate) THEN "text"
       ELSE coerce_type(get(table_columns[CHOOSE i \in hits : \A j \in hits : j <= i], "data_type"))

typed_date_names(table_columns) ==
    {get(table_columns[i], "column_name") : i \in
        {j \in 1..Len(table_columns) :
            /\ dtype_is_date(get(table_columns[j], "data_type"))
            /\ Truthy(get(table_columns[j], "column_name"))}}

\* sorted(set(typed_date_cols), key=_score, reverse=True): the set is iterated in
\* hash order, which differs from run to run, and the sort is stable, so names
\* of equal score come out in any order
TypedOrders(table_columns) ==
    LET names == typed_date_names(table_columns)
        n == Cardinality(names)
    IN {seq \in [1..n -> names] :
           /\ \A i, j \in 1..n : seq[i] = seq[j] => i = j
           /\ \A i, j \in 1..n : i < j => score(seq[i]) >= score(seq[j])}

append_new(seq, x) == IF InSeq(x, seq) THEN seq ELSE Append(seq, x)

\* name_candidates_primary and name_candidates_time_only after the first n columns
RECURSIVE name_candidates_upto(_, _)
name_candidates_upto(table_columns, n) ==
    IF n = 0 THEN [primary |-> <<>>, time_only |-> <<>>]
    ELSE LET before == name_candidates_upto(table_columns, n - 1)
             column_name == get(table_columns[n], "column_name")
             data_type == get(table_columns[n], "data_type")
         IN IF ~Truthy(column_name) THEN before
            ELSE IF contains(lower(column_name.s), "date") \/ dtype_is_date(data_type)
                 THEN [before EXCEPT !.primary = append_new(@, column_name)]
            ELSE IF contains(lower(column_name.s), "time")
                 THEN (IF dtype_is_date(data_type)
                       THEN [before EXCEPT !.primary = append_new(@, column_name)]
                       ELSE [before EXCEPT !.time_only = append_new(@, column_name)])
            ELSE before

RECURSIVE without_repeats(_)
without_repeats(seq) ==
    IF seq = <<>> THEN <<>>
    ELSE append_new(without_repeats(SubSeq(seq, 1, Len(seq) - 1)), seq[Len(seq)])

\* typed_date_cols (in the order the sort produced), name_candidates and
\* direct_candidates of a table
candidate_columns(table_columns, typed_date_cols) ==
    LET named == name_candidates_upto(table_columns, Len(table_columns))
        name_candidates == named.primary \o named.time_only
    IN [typed |-> typed_date_cols,
        names |-> name_candidates,
        direct |-> without_repeats(typed_date_cols \o name_candidates)]

DirectCap == 8

\* direct_candidates[:8]
direct_tried(cols) ==
    SubSeq(cols.direct, 1, IF Len(cols.direct) < DirectCap THEN Len(cols.direct) ELSE DirectCap)

\* f"'{table}'[{column}]"
column_reference(table, column) == "'" \o pystr(table) \o "'[" \o pystr(column) \o "]"

\* the DATEVALUE/TIMEVALUE parse of a text column; the VAR block is shortened
\* to its first and last line
build_text_datetime_expr(table, column) ==
    "VAR __raw = TRIM(" \o column_reference(table, column)
        \o ") RETURN IF(ISBLANK(__dateValue), BLANK(), __dateValue + IF(ISBLANK(__timeValue), 0, __timeValue))"

coerce_expr(table, column, current_type, target_type) ==
    LET reference == column_reference(table, column)
    IN IF target_type = "number"
       THEN (IF current_type = "number" THEN reference
             ELSE "IFERROR(VALUE(" \o reference \o "), BLANK())")
       ELSE IF target_type = "text"
       THEN (IF current_type = "text" THEN reference
             ELSE "FORMAT(" \o reference \o ", \"0\")")
       ELSE IF target_type = "date"
       THEN (IF current_type = "date" \/ current_type = "number" THEN reference
             ELSE build_text_datetime_expr(table, column))
       ELSE reference

\* lines 1199-1264: the rows query and the orphan query of one business
\* relationship; the orphan query compares fk_expr with pk_expr
quality_queries(relationship, types, rows, orphan) ==
    LET target_type == select_join_type(types.from, types.to)
        from == ColumnRef(relationship.from_table, relationship.from_column)
        to == ColumnRef(relationship.to_table, relationship.to_column)
    IN <<[kind |-> "rows", from |-> from, to |-> to, fk_expr |-> "", pk_expr |-> "",
          answer |-> rows.t,
          total_rows |-> rows_cell(rows, "total_rows"),
          distinct_fk |-> rows_cell(rows, "distinct_fk")],
         [kind |-> "orphan", from |-> from, to |-> to,
          fk_expr |-> coerce_expr(relationship.from_table, relationship.from_column,
                                  types.from, target_type),
          pk_expr |-> coerce_expr(relationship.to_table, relationship.to_column,
                                  types.to, target_type),
          answer |-> orphan.t, total_rows |-> NONE, distinct_fk |-> NONE]>>

\* the expression the direct query profiles for a candidate
direct_target_expr(table, table_columns, candidate) ==
    IF normalized_type_of(table_columns, candidate) = "text"
    THEN build_text_datetime_expr(table, candidate)
    ELSE column_reference(table, candidate)

\* next(data_type of the first column record of table[column], '') or ''
declared_type(columns, table, column) ==
    LET hits == {i \in 1..Len(columns) :
                    get(columns[i], "table_name") = table /\ get(columns[i], "column_name") = column}
    IN IF hits = {} THEN ""
       ELSE lower(StrOr(get(columns[CHOOSE i \in hits : \A j \in hits : i <= j], "data_type")))

\* what the via_key strategy needs: Raised when the time key cannot be asked
\* for, None when there is no time key or no date column in the dimension
via_key_plan(table, md) ==
    LET key_info == detect_default_time_key(table, md)
    IN IF key_info = Raised THEN Raised
       ELSE IF key_info = NONE THEN NONE
       ELSE LET dim_date_column == select_dim_date_column(key_info.dim_table, md)
                fact_type == coerce_type(S(declared_type(md.columns, table, key_info.fact_key)))
                dim_type == coerce_type(S(declared_type(md.columns, key_info.dim_table, key_info.dim_key)))
            IN IF ~Truthy(dim_date_column) THEN NONE
               ELSE [t |-> "plan",
                     fact_key |-> key_info.fact_key,
                     dim_table |-> key_info.dim_table,
                     dim_key |-> key_info.dim_key,
                     dim_date_column |-> dim_date_column,
                     fact_type |-> fact_type,
                     dim_type |-> dim_type,
                     fact_to_dim |-> coerce_expr(table, key_info.fact_key, fact_type, dim_type),
                     dim_to_fact |-> coerce_expr(key_info.dim_table, key_info.dim_key, dim_type, fact_type)]

\* "COALESCE(" + ", ".join(references of typed_date_cols[:3]) + ")"
coalesce_columns(cols) == SubSeq(cols.typed, 1, IF Len(cols.typed) < 3 THEN Len(cols.typed) ELSE 3)

RECURSIVE join_references(_, _)
join_references(table, columns) ==
    IF Len(columns) = 0 THEN ""
    ELSE IF Len(columns) = 1 THEN column_reference(table, columns[1])
    ELSE column_reference(table, columns[1]) \o ", " \o join_references(table, Tail(columns))

coalesce_expr(table, cols) == "COALESCE(" \o join_references(table, coalesce_columns(cols)) \o ")"

\* the strategy that follows the direct one, and the one that follows via_key
\* the direct strategy followed by coalesce at once, via_key left out
stage_after_direct_without_via_key(table, md, cols) ==
    IF Len(cols.typed) >= 2 THEN "ta_coalesce" ELSE "fallback"

stage_after_via_key(cols) == IF Len(cols.typed) >= 2 THEN "ta_coalesce" ELSE "fallback"

stage_after_direct(table, md, cols) ==
    LET plan == via_key_plan(table, md)
    IN IF plan = Raised THEN "raised"
       ELSE IF plan # NONE THEN "ta_via_key"
       ELSE stage_after_via_key(cols)

first_stage(table, md, cols) ==
    IF Len(direct_tried(cols)) > 0 THEN "ta_direct" ELSE stage_after_direct(table, md, cols)

\* pd.isna of a result cell
IsNa(v) == v.t = "none" \/ v.t = "nan"

\* the query answered with a row, whatever its anchor
HasRow(answer) == answer.t = "row"

\* the query answered with a row whose anchor is not null
HasAnchor(answer) == answer.t = "row" /\ ~IsNa(answer.anchor)

AnchorOrder == <<"direct", "via_key", "coalesce", "fallback">>

direct_profile(table, candidate, target_expr, record) ==
    [anchor_column |-> candidate,
     anchor_reference_column |-> candidate,
     min |-> record.min, max |-> record.max, anchor |-> record.anchor,
     nonblank |-> to_int_or_none(record.nonblank),
     cnt7 |-> to_int_or_none(record.cnt7),
     cnt30 |-> to_int_or_none(record.cnt30),
     cnt90 |-> to_int_or_none(record.cnt90),
     anchor_expr_direct |-> "MAXX(ALL('" \o pystr(table) \o "'), " \o target_expr \o ")",
     anchor_order |-> AnchorOrder]

via_key_profile(table, plan, record) ==
    [anchor_column |-> plan.fact_key,
     anchor_reference_column |-> plan.fact_key,
     min |-> record.min, max |-> record.max, anchor |-> record.anchor,
     nonblank |-> to_int_or_none(record.nonblank),
     cnt7 |-> to_int_or_none(record.cnt7),
     cnt30 |-> to_int_or_none(record.cnt30),
     cnt90 |-> to_int_or_none(record.cnt90),
     anchor_via_key |-> TRUE,
     anchor_expr_via_key |->
         "CALCULATE(MAX(" \o column_reference(plan.dim_table, plan.dim_date_column)
            \o "), TREATAS(SELECTCOLUMNS(FILTER(VALUES(" \o column_reference(table, plan.fact_key)
            \o "), NOT ISBLANK(" \o plan.fact_to_dim \o ")), \"__k\", " \o plan.fact_to_dim \o "), "
            \o column_reference(plan.dim_table, plan.dim_key) \o "))",
     date_dimension |-> plan.dim_table,
     date_axis_column |-> plan.dim_date_column,
     anchor_order |-> AnchorOrder]

coalesce_profile(table, cols, record) ==
    [anchor_column |-> S(coalesce_expr(table, cols)),
     anchor_reference_column |-> coalesce_columns(cols)[1],
     min |-> record.min, max |-> record.max, anchor |-> record.anchor,
     nonblank |-> to_int_or_none(record.nonblank),
     cnt7 |-> to_int_or_none(record.cnt7),
     cnt30 |-> to_int_or_none(record.cnt30),
     cnt90 |-> to_int_or_none(record.cnt90),
     anchor_via_coalesce |-> TRUE,
     anchor_expr_coalesce |-> "MAXX(ALL('" \o pystr(table) \o "'), " \o coalesce_expr(table, cols) \o ")",
     anchor_order |-> AnchorOrder]

fallback_profile(cols) ==
    LET fallback_column == IF Len(cols.direct) > 0 THEN cols.direct[1]
                           ELSE IF Len(cols.names) > 0 THEN cols.names[1]
                           ELSE NONE
    IN [anchor_column |-> fallback_column,
        anchor_reference_column |-> fallback_column,
        min |-> NONE, max |-> NONE, anchor |-> NONE, nonblank |-> NONE,
        cnt7 |-> NONE, cnt30 |-> NONE, cnt90 |-> NONE,
        anchor_order |-> AnchorOrder]

\* ------------------------------------------------------------------
\* The via_key query evaluated over the rows the backend holds.  A cell is
\* a number, a text or blank (None); a date is a day number.
\* ------------------------------------------------------------------
DigitTexts == <<"1", "2", "3">>

\* IFERROR(VALUE(text), BLANK()): the number a text spells, blank otherwise
value_of_text(cell) ==
    IF cell.t = "str" /\ \E k \in 1..Len(DigitTexts) : DigitTexts[k] = cell.s
    THEN N(CHOOSE k \in 1..Len(DigitTexts) : DigitTexts[k] = cell.s)
    ELSE NONE

\* FORMAT(number, "0"): the digits of a number, the empty text for blank
format_of_number(cell) ==
    IF cell.t = "int" /\ cell.n \in 1..Len(DigitTexts) THEN S(DigitTexts[cell.n]) ELSE S("")

\* what the expression _coerce_expr builds yields for one cell
coerce_cell(cell, current_type, target_type) ==
    IF target_type = "number"
    THEN (IF current_type = "number" THEN cell ELSE value_of_text(cell))
    ELSE IF target_type = "text"
    THEN (IF current_type = "text" THEN cell ELSE format_of_number(cell))
    ELSE cell

Cells(seq) == {seq[i] : i \in 1..Len(seq)}

SetMax(set) == CHOOSE x \in set : \A y \in set : y <= x
SetMin(set) == CHOOSE x \in set : \A y \in set : x <= y

\* a result cell: blank comes back as NaN
BlankOr(set, n) == IF set = {} THEN NAN ELSE N(n)

\* VAR KeyFact: the distinct fact keys that are not blank once coerced
key_fact(plan, wh) ==
    {coerce_cell(c, plan.fact_type, plan.dim_type) : c \in Cells(wh.fact_keys)} \ {NONE}

\* the dates of all dimension rows, the filter by key left out
treatas_dates_unfiltered(keys, wh) ==
    {wh.dim_rows[i].date.n : i \in {j \in 1..Len(wh.dim_rows) : wh.dim_rows[j].date # NONE}}

\* the dates of the dimension rows TREATAS(KeyFact, dim[dim_key]) keeps
treatas_dates(keys, wh) ==
    {wh.dim_rows[i].date.n :
        i \in {j \in 1..Len(wh.dim_rows) :
                  wh.dim_rows[j].key \in keys /\ wh.dim_rows[j].date # NONE}}

\* VAR Cnt<n>: the fact rows whose key is the key of a dimension row dated
\* within n days up to the anchor
window_count(plan, wh, anchor, n) ==
    LET window_keys == {wh.dim_rows[i].key :
                           i \in {j \in 1..Len(wh.dim_rows) :
                                     /\ wh.dim_rows[j].date # NONE
                                     /\ wh.dim_rows[j].date.n > anchor - n
                                     /\ wh.dim_rows[j].date.n <= anchor}}
        window_fact == {coerce_cell(k, plan.dim_type, plan.fact_type) : k \in window_keys}
        rows == {i \in 1..Len(wh.fact_keys) : wh.fact_keys[i] \in window_fact}
    IN BlankOr(rows, Cardinality(rows))

\* the ROW(...) of dax_key (lines 838-905)
via_key_row(plan, wh) ==
    LET keys == key_fact(plan, wh)
        dates == treatas_dates(keys, wh)
        anchor == IF dates = {} THEN 0 ELSE SetMax(dates)
        counted(n) == IF dates = {} THEN NAN ELSE window_count(plan, wh, anchor, n)
    IN [t |-> "row",
        min |-> BlankOr(dates, IF dates = {} THEN 0 ELSE SetMin(dates)),
        max |-> BlankOr(dates, anchor),
        anchor |-> BlankOr(dates, anchor),
        nonblank |-> BlankOr(keys, Cardinality(keys)),
        cnt7 |-> counted(7), cnt30 |-> counted(30), cnt90 |-> counted(90)]

\* ------------------------------------------------------------------
\* The lite documentor: metadata, structure and the fact profiles
\* (LLMModelDocLite._fetch_metadata, _analyze, _profile_facts_via_key)
\* ------------------------------------------------------------------
endswith(s, p) == Len(s) >= Len(p) /\ SubSeq(s, Len(s) - Len(p) + 1, Len(s)) = p

\* md['errors'] of the lite fetch, in the order of the queries
lite_fetch_errors(outcome) ==
    LET failed == SelectSeq(PrimaryCategories, LAMBDA k : outcome[k] = "failed")
    IN [i \in 1..Len(failed) |-> failed[i] \o " not available"]

lite_business_tables_of(tables) ==
    SelectSeq(tables, LAMBDA t : ~table_is_auto_date(t) /\ ~lite_b(get(t, "is_hidden")))

\* a category whose query failed keeps its empty list
lite_fetch_metadata(backend, outcome) ==
    LET fetched(key) == IF outcome[key] = "failed" THEN <<>> ELSE backend[key]
    IN [tables |-> fetched("tables"),
        columns |-> fetched("columns"),
        measures |-> fetched("measures"),
        relationships |-> fetched("relationships"),
        errors |-> lite_fetch_errors(outcome),
        auto_date_tables |-> auto_date_tables_of(fetched("tables")),
        business_tables |-> lite_business_tables_of(fetched("tables"))]

\* score(name) of _pick_default_dimdate
lite_dimdate_score(name) ==
    LET n == lower(name.s)
    IN IF contains(n, "dimdate") THEN 0
       ELSE IF endswith(n, "dimdate") THEN 1
       ELSE IF contains(n, "calendar") THEN 2
       ELSE IF endswith(n, "date") THEN 3
       ELSE IF contains(n, "date") THEN 4
       ELSE 9

DimDateScores == <<0, 1, 2, 3, 4, 9>>

\* sorted(candidates, key=score): a stable sort
RECURSIVE lite_sorted_from(_, _)
lite_sorted_from(candidates, k) ==
    IF k > Len(DimDateScores) THEN <<>>
    ELSE SelectSeq(candidates, LAMBDA c : lite_dimdate_score(c) = DimDateScores[k])
            \o lite_sorted_from(candidates, k + 1)

lite_truthy_names(records, field) ==
    LET kept == SelectSeq(records, LAMBDA r : Truthy(get(r, field)))
    IN [i \in 1..Len(kept) |-> get(kept[i], field)]

lite_columns_of(table, md) == SelectSeq(md.columns, LAMBDA c : get(c, "table_name") = table)

\* _select_dim_date_col: a preferred name, else the first date-typed column,
\* else the first column, else None
lite_select_dim_date_col(dim_table, md) ==
    LET cols == lite_columns_of(dim_table, md)
        names == lite_truthy_names(cols, "column_name")
        typed_cols == SelectSeq(cols, LAMBDA c : contains(lower(StrOr(get(c, "data_type"))), "date"))
        preferred == <<S("CalendarDate"), S("Date"), S("DateValue")>>
    IN IF \E i \in 1..3 : InSeq(preferred[i], names)
       THEN First(preferred, LAMBDA q : InSeq(q, names))
       ELSE IF Len(typed_cols) > 0 THEN get(typed_cols[1], "column_name")
       ELSE IF Len(names) > 0 THEN names[1]
       ELSE NONE

\* _pick_default_dimdate: (dim_table, dim_key, dim_date_col)
lite_pick_default_dimdate(md) ==
    LET candidates == lite_sorted_from(lite_truthy_names(md.tables, "table_name"), 1)
        dated(t) == contains(lower(t.s), "date") \/ contains(lower(t.s), "calendar")
        dim_dated(t) == contains(lower(t.s), "dim") /\ dated(t)
        dim_table == IF \E i \in 1..Len(candidates) : dim_dated(candidates[i])
                     THEN First(candidates, dim_dated)
                     ELSE IF \E i \in 1..Len(candidates) : dated(candidates[i])
                     THEN First(candidates, dated)
                     ELSE NONE
        names == lite_truthy_names(lite_columns_of(dim_table, md), "column_name")
        known == <<S("DateKey"), S("Date Id"), S("DateID")>>
        suffixed(n) == endswith(lower(n.s), "datekey")
        dim_key == IF \E i \in 1..3 : InSeq(known[i], names)
                   THEN First(known, LAMBDA q : InSeq(q, names))
                   ELSE IF \E i \in 1..Len(names) : suffixed(names[i])
                   THEN First(names, suffixed)
                   ELSE IF Len(names) > 0 THEN names[1]
                   ELSE NONE
    IN IF dim_table = NONE
       THEN [table |-> NONE, key_column |-> NONE, date_column |-> NONE]
       ELSE [table |-> dim_table, key_column |-> dim_key,
             date_column |-> lite_select_dim_date_col(dim_table, md)]

\* rels: the relationships _active_business_rel keeps
lite_rels(md) == SelectSeq(md.relationships, LAMBDA r : lite_active_business_rel(r) = "true")

LiteNumberWords == {"int", "decimal", "double", "currency", "number", "whole"}

\* the classification of one business table (lines 211-231)
lite_classify(t, rels, md) ==
    LET name == lower(StrOr(t))
        outgoing == Len(SelectSeq(rels, LAMBDA r : get(r, "from_table") = t))
        incoming == Len(SelectSeq(rels, LAMBDA r : get(r, "to_table") = t))
        cols == lite_columns_of(t, md)
        dtype(c) == lower(StrOr(get(c, "data_type")))
        num_text == Len(SelectSeq(cols, LAMBDA c : contains(dtype(c), "text")
                                                    \/ contains(dtype(c), "string")))
        num_num == Len(SelectSeq(cols, LAMBDA c : \E k \in LiteNumberWords : contains(dtype(c), k)))
    IN IF startswith(name, "fact") \/ startswith(name, "vwpcse_fact") THEN S("fact")
       ELSE IF startswith(name, "dim") \/ startswith(name, "vwpcse_dim") THEN S("dimension")
       ELSE IF outgoing >= 2 THEN S("fact")
       ELSE IF incoming > outgoing THEN S("dimension")
       ELSE IF num_text > num_num THEN S("dimension")
       ELSE S("other")

RECURSIVE lite_table_types_upto(_, _, _)
lite_table_types_upto(md, rels, n) ==
    IF n = 0 THEN <<>>
    ELSE LET name == get(md.business_tables[n], "table_name")
         IN dict_set(lite_table_types_upto(md, rels, n - 1), name, lite_classify(name, rels, md))

\* st['star'][f]['dimensions'] (lines 236-246)
lite_star_edges(fact, dim_tables, rels) ==
    LET edges == SelectSeq(rels, LAMBDA r : get(r, "from_table") = fact
                                            /\ InSeq(get(r, "to_table"), dim_tables))
    IN [i \in 1..Len(edges) |->
          [dimension_table |-> get(edges[i], "to_table"),
           join_key |-> pystr(get(edges[i], "from_column")) \o " -> "
                           \o pystr(get(edges[i], "to_column")),
           direction |-> get(edges[i], "cross_filter_direction")]]

\* (r.get('to_column') or 'DateKey')
lite_to_col(r) == IF Truthy(get(r, "to_column")) THEN get(r, "to_column") ELSE S("DateKey")

\* _find_time_key_for_fact: the first relationship to the preferred table with
\* a from_column, else the first to a date-like dimension with one, else None
lite_find_time_key_for_fact(fact, rels, dim_tables, prefer_table) ==
    LET keyed(r) == get(r, "from_table") = fact /\ Truthy(get(r, "from_column"))
        preferred(r) == keyed(r) /\ get(r, "to_table") = prefer_table
        date_like(r) ==
            /\ keyed(r)
            /\ InSeq(get(r, "to_table"), dim_tables)
            /\ \E k \in {"dimdate", "calendar", "date"} :
                  contains(lower(StrOr(get(r, "to_table"))), k)
        pick(r) == [default_time_key |-> get(r, "from_column"),
                    date_dimension |-> get(r, "to_table"),
                    date_dimension_key |-> lite_to_col(r)]
    IN IF \E i \in 1..Len(rels) : preferred(rels[i]) THEN pick(First(rels, preferred))
       ELSE IF \E i \in 1..Len(rels) : date_like(rels[i]) THEN pick(First(rels, date_like))
       ELSE NONE

\* st['fact_time'][f] (lines 248-259)
lite_fact_time(fact, rels, dim_tables, date_axis) ==
    LET pick == lite_find_time_key_for_fact(fact, rels, dim_tables, date_axis.table)
    IN IF pick # NONE THEN pick
       ELSE [default_time_key |-> NONE,
             date_dimension |-> date_axis.table,
             date_dimension_key |-> date_axis.key_column]

\* _analyze: Raised when a relationship record is None
lite_analyze(md) ==
    IF \E i \in 1..Len(md.relationships) : IsRecordNone(md.relationships[i]) THEN Raised
    ELSE LET rels == lite_rels(md)
             date_axis == lite_pick_default_dimdate(md)
             table_types == lite_table_types_upto(md, rels, Len(md.business_tables))
             fact_tables == tables_of_type(table_types, "fact")
             dim_tables == tables_of_type(table_types, "dimension")
         IN [table_types |-> table_types,
             date_axis |-> date_axis,
             star |-> [i \in 1..Len(fact_tables) |->
                         [key |-> fact_tables[i],
                          value |-> [dimensions |->
                                        lite_star_edges(fact_tables[i], dim_tables, rels)]]],
             fact_time |-> [i \in 1..Len(fact_tables) |->
                              [key |-> fact_tables[i],
                               value |-> lite_fact_time(fact_tables[i], rels, dim_tables,
                                                        date_axis)]]]

\* _to_int of a result cell: None / NaN give None, an int is kept
lite_to_int(x) == IF x.t = "int" THEN x ELSE NONE

\* _to_iso: None stays None, a date gives its ISO text, anything else its str()
Iso(day) == [t |-> "iso", day |-> day]

to_iso(value) ==
    CASE value.t = "none" -> NONE
      [] value.t = "int" -> Iso(value.n)
      [] OTHER -> S(pystr(value))

\* (a or b) for two values
ValueOr(a, b) == IF Truthy(a) THEN a ELSE b

\* fkey, dtab, dkey and dcol of one fact (lines 359-363)
lite_time_config(fact, md, st) ==
    LET cfg == dict_get(st.fact_time, fact)
        dtab == ValueOr(cfg.date_dimension, st.date_axis.table)
    IN [fkey |-> cfg.default_time_key,
        dtab |-> dtab,
        dkey |-> ValueOr(cfg.date_dimension_key, st.date_axis.key_column),
        dcol |-> IF Truthy(dtab) THEN lite_select_dim_date_col(dtab, md)
                 ELSE st.date_axis.date_column]

\* date_cols: the fact's columns whose declared type mentions date
lite_date_cols(fact, md) ==
    LET cols == SelectSeq(md.columns,
                    LAMBDA c : /\ get(c, "table_name") = fact
                               /\ contains(lower(StrOr(get(c, "data_type"))), "date"))
    IN [i \in 1..Len(cols) |-> get(cols[i], "column_name")]

\* the ROW(...) of the lite via-key query: the fact keys are compared with the
\* dimension keys as they are
lite_via_key_row(wh) ==
    LET row == via_key_row([fact_type |-> "text", dim_type |-> "text"], wh)
    IN [t |-> "row", min |-> row.min, max |-> row.max, anchor |-> row.anchor,
        cnt7 |-> row.cnt7, cnt30 |-> row.cnt30, cnt90 |-> row.cnt90]

\* the cell of ROW("anchor", MAX(dim_table[dim_date])): a blank reaches the
\* caller as None or as NaN
lite_fallback_rows(wh) ==
    LET dates == {wh.dim_rows[i].date.n :
                     i \in {j \in 1..Len(wh.dim_rows) : wh.dim_rows[j].date # NONE}}
    IN IF dates = {} THEN {[t |-> "row", anchor |-> NONE], [t |-> "row", anchor |-> NAN]}
       ELSE {[t |-> "row", anchor |-> N(SetMax(dates))]}

\* not df.empty and pd.notna(anchor)
lite_answered(answer) == answer.t = "row" /\ ~IsNa(answer.anchor)

lite_payload_of(source, answer, dcol) ==
    [source |-> S(source),
     min |-> to_iso(answer.min), max |-> to_iso(answer.max), anchor |-> to_iso(answer.anchor),
     cnt7 |-> lite_to_int(answer.cnt7), cnt30 |-> lite_to_int(answer.cnt30),
     cnt90 |-> lite_to_int(answer.cnt90),
     date_axis_column |-> dcol]

\* which of the three queries one fact is asked for the given answers
lite_asks(fact, md, st, via_key, direct) ==
    LET cfg == lite_time_config(fact, md, st)
        asks_via_key == Truthy(cfg.fkey) /\ Truthy(cfg.dtab) /\ Truthy(cfg.dkey) /\ Truthy(cfg.dcol)
        by_key == asks_via_key /\ lite_answered(via_key)
        asks_direct == ~by_key /\ Len(lite_date_cols(fact, md)) > 0
        by_direct == asks_direct /\ lite_answered(direct)
    IN [via_key |-> asks_via_key,
        direct |-> asks_direct,
        fallback |-> /\ ~by_key
                     /\ ~by_direct
                     /\ Truthy(st.date_axis.table)
                     /\ Truthy(st.date_axis.date_column)]

\* payload of one fact (lines 365-462): via_key, else direct, else fallback
lite_time_payload(fact, md, st, via_key, direct, fallback) ==
    LET cfg == lite_time_config(fact, md, st)
        asks == lite_asks(fact, md, st, via_key, direct)
        empty == [source |-> NONE, min |-> NONE, max |-> NONE, anchor |-> NONE,
                  cnt7 |-> NONE, cnt30 |-> NONE, cnt90 |-> NONE, date_axis_column |-> cfg.dcol]
    IN IF asks.via_key /\ lite_answered(via_key)
       THEN lite_payload_of("via_key", via_key, cfg.dcol)
       ELSE IF asks.direct /\ lite_answered(direct)
       THEN lite_payload_of("direct", direct, cfg.dcol)
       ELSE IF asks.fallback /\ fallback.t = "row"
       THEN [empty EXCEPT !.anchor = to_iso(fallback.anchor),
                          !.max = to_iso(fallback.anchor),
                          !.source = S("fallback")]
       ELSE empty

\* rc = int(df.iloc[0, 0]) if not df.empty else None; a failure leaves None
lite_row_count(answer) ==
    IF answer.t = "row" /\ answer.row_count.t = "int" THEN answer.row_count ELSE NONE

\* ------------------------------------------------------------------
\* The lite relationship pass (LLMModelDocLite._profile_relationships_lite)
\* ------------------------------------------------------------------
CommonDims ==
    {"dimdate", "dimgeography", "dimqueue", "dimpartner", "dimsap", "dimlanguage",
     "dimsite", "dimrootcause"}

RelationshipTopK == 12

\* edges: the active business relationships to a common dimension, all active
\* business relationships when there is none, cut to max(1, top_k)
lite_edges(relationships, top_k) ==
    LET active_edges == SelectSeq(relationships, LAMBDA r : lite_active_business_rel(r) = "true")
        to_common(r) == \E k \in CommonDims : contains(lower(StrOr(r.to_table)), k)
        candidates == SelectSeq(active_edges, to_common)
        chosen == IF Len(candidates) = 0 THEN active_edges ELSE candidates
        cut == IF top_k < 1 THEN 1 ELSE top_k
    IN SubSeq(chosen, 1, IF Len(chosen) < cut THEN Len(chosen) ELSE cut)

\* round(x, 4): the nearest multiple of 1/10000 (half-way cases to the even one)
round4(r) ==
    LET scaled == r.n * 10000
        q == scaled \div r.d
        rest == scaled % r.d
        up == IF 2 * rest > r.d THEN 1
              ELSE IF 2 * rest < r.d THEN 0
              ELSE q % 2
    IN Rat(q + up, 10000)

round4_or_none(r) == IF r = NONE THEN NONE ELSE round4(r)

\* lines 499-503: blank_ratio from the first query
lite_blank_ratio(rows) ==
    IF rows.t # "row" THEN NONE
    ELSE LET blank_fk == lite_to_int(rows.blank_fk)
             total_rows == lite_to_int(rows.total_rows)
         IN IF Truthy(total_rows) /\ blank_fk # NONE
            THEN Rat(blank_fk.n, total_rows.n) ELSE NONE

\* lines 518-520: coverage from the second query and distinct_fk of the first
lite_coverage(rows, orphan) ==
    IF orphan.t # "row" THEN NONE
    ELSE LET distinct_fk == IF rows.t = "row" THEN lite_to_int(rows.distinct_fk) ELSE NONE
             orphan_fk == lite_to_int(orphan.orphan_fk)
         IN IF Truthy(distinct_fk) /\ distinct_fk.n > 0 /\ orphan_fk # NONE
            THEN RatSub(One, Rat(orphan_fk.n, distinct_fk.n)) ELSE NONE

\* lines 525-529
lite_severity_of(coverage, blank_ratio) ==
    IF (coverage # NONE /\ RatLess(coverage, Rat(95, 100)))
       \/ (blank_ratio # NONE /\ RatLess(Rat(5, 100), blank_ratio)) THEN "RED"
    ELSE IF (coverage # NONE /\ RatLess(coverage, Rat(98, 100)))
       \/ (blank_ratio # NONE /\ RatLess(Rat(2, 100), blank_ratio)) THEN "YELLOW"
    ELSE "GREEN"

\* lines 531-539: the record of one edge, given the two query outcomes
lite_record(r, rows, orphan) ==
    LET blank_ratio == lite_blank_ratio(rows)
        coverage == lite_coverage(rows, orphan)
    IN [from |-> pystr(r.from_table) \o "[" \o pystr(r.from_column) \o "]",
        to |-> pystr(r.to_table) \o "[" \o pystr(r.to_column) \o "]",
        blank_fk_ratio |-> round4_or_none(blank_ratio),
        coverage |-> round4_or_none(coverage),
        severity |-> lite_severity_of(coverage, blank_ratio),
        inactive |-> FALSE,
        hint |-> NONE]

\* ------------------------------------------------------------------
\* State
\* ------------------------------------------------------------------
VARIABLES
    pc,         \* position of the running operation
    rel_in,     \* the relationship record handed to the business predicate
    biz_main,   \* result of _is_business_relationship: unset | true | false | raised
    biz_lite,   \* result of _active_business_rel: unset | true | false | raised
    md,         \* the metadata snapshot: tables, columns, measures, relationships
    q_i,        \* _relationship_quality_checks: index of the next relationship
    lints,      \* _relationship_quality_checks: lints
    details,    \* _relationship_quality_checks: details
    summary,    \* _relationship_quality_checks: summary (unsorted)
    filtered_auto_relationships,    \* self.filtered_auto_relationships
    rel_quality,    \* the dict _relationship_quality_checks returns
    rq_issued,      \* the queries _relationship_quality_checks sent to the backend
    structure,  \* the dict _analyze_model_structure returns
    reclass,    \* a later result of _classify_table for one table
    ph_i,       \* _profile_data_health: index of the fact table at hand
    ta_k,       \* _profile_time_anchor_for_table: index of the next direct candidate
    ta_cols,    \* _profile_time_anchor_for_table: typed_date_cols, direct_candidates
    ph_result,  \* _profile_data_health: result
    issued,     \* the queries sent to the backend by the data-health pass
    profiles,   \* the dict _profile_data_health returns
    lite_edges_left,    \* _profile_relationships_lite: the edges still to profile
    lite_details,       \* _profile_relationships_lite: details
    lite_result,        \* the dict _profile_relationships_lite returns
    warehouse,  \* the rows the backend holds: the fact's key cells, the dimension's rows
    lite_st,    \* the dict LLMModelDocLite._analyze returns
    lf_i,       \* _profile_facts_via_key: index of the fact table at hand
    lf_out,     \* _profile_facts_via_key: out
    lf_issued,  \* the queries _profile_facts_via_key sent to the backend
    fetched,    \* what the metadata fetch met: the backend's listings, the categories that failed
    passes,     \* the calls of _relationship_quality_checks running on one documentor
    kinds       \* one declared type string and the kind each component gives it

vars == <<pc, rel_in, biz_main, biz_lite, md, q_i, lints, details, summary, rq_issued,
          filtered_auto_relationships, rel_quality, structure, reclass,
          ph_i, ta_k, ta_cols, ph_result, issued, profiles,
          lite_edges_left, lite_details, lite_result, warehouse,
          lite_st, lf_i, lf_out, lf_issued, fetched, passes, kinds>>

businessVars == <<rel_in, biz_main, biz_lite>>
qualityVars ==
    <<q_i, lints, details, summary, filtered_auto_relationships, rel_quality, rq_issued>>
analysisVars == <<structure, reclass>>
healthVars == <<ph_i, ta_k, ta_cols, ph_result, issued, profiles>>
liteVars == <<lite_edges_left, lite_details, lite_result>>
dataVars == <<warehouse, fetched, passes, kinds>>
factsVars == <<lite_st, lf_i, lf_out, lf_issued>>

EmptyMd ==
    [tables |-> <<>>, columns |-> <<>>, measures |-> <<>>, relationships |-> <<>>,
     hierarchies |-> <<>>, roles |-> <<>>, errors |-> <<>>,
     auto_date_tables |-> <<>>, business_tables |-> <<>>]

\* the variables of an operation that is not running
BusinessIdle == rel_in = NONE /\ biz_main = "unset" /\ biz_lite = "unset"
QualityIdle ==
    /\ q_i = 0
    /\ lints = <<>>
    /\ details = <<>>
    /\ summary = <<>>
    /\ filtered_auto_relationships = 0
    /\ rel_quality = NONE
    /\ rq_issued = <<>>
AnalysisIdle == structure = NONE /\ reclass = NONE
HealthIdle ==
    /\ ph_i = 0
    /\ ta_k = 0
    /\ ta_cols = NONE
    /\ ph_result = NONE
    /\ issued = <<>>
    /\ profiles = NONE
LiteIdle == lite_edges_left = <<>> /\ lite_details = <<>> /\ lite_result = NONE
DataIdle == warehouse = NONE /\ fetched = NONE /\ passes = <<>> /\ kinds = NONE
FactsIdle == lite_st = NONE /\ lf_i = 0 /\ lf_out = <<>> /\ lf_issued = <<>>

\* ------------------------------------------------------------------
\* RelationshipFilter: the business predicate on one relationship record
\* ------------------------------------------------------------------
Rel(active, ft, fc, tt, tc) ==
    [t |-> "dict", is_active |-> active, from_table |-> ft, from_column |-> fc,
     to_table |-> tt, to_column |-> tc]

\* is_active as the backend may deliver it: bool, None/missing, text, number, NaN
FlagPool ==
    {B(TRUE), B(FALSE), NONE, NAN, N(1), N(0),
     S("true"), S(" Yes "), S("T"), S("1"), S("false"), S("0"), S(""), S("active")}

\* table names: auto-generated calendar tables in several casings, look-alikes,
\* ordinary tables, the empty name and a missing name
EndpointPool ==
    {NONE, S(""), S("FactOrders"), S("DimDate"),
     S("LocalDateTable_1a"), S("localdatetable_x"), S("DATETABLETEMPLATE_Z"),
     S("DateTableTemplate_9"), S("LocalDateTable"), S("MyLocalDateTable_1")}

BusinessInputs ==
    {NONE} \cup {Rel(a, ft, S("k"), tt, S("k")) : a \in FlagPool, ft \in EndpointPool, tt \in EndpointPool}

InitBusiness ==
    /\ pc = "business"
    /\ rel_in \in BusinessInputs
    /\ biz_main = "unset"
    /\ biz_lite = "unset"
    /\ md = EmptyMd
    /\ QualityIdle
    /\ AnalysisIdle
    /\ HealthIdle
    /\ LiteIdle
    /\ DataIdle
    /\ FactsIdle

IsBusinessRelationship ==
    /\ pc = "business"
    /\ biz_main = "unset"
    /\ biz_main' = is_business_relationship(rel_in)
    /\ UNCHANGED <<pc, rel_in, biz_lite, md, dataVars, factsVars, qualityVars, analysisVars, healthVars, liteVars>>

ActiveBusinessRel ==
    /\ pc = "business"
    /\ biz_lite = "unset"
    /\ biz_lite' = lite_active_business_rel(rel_in)
    /\ UNCHANGED <<pc, rel_in, biz_main, md, dataVars, factsVars, qualityVars, analysisVars, healthVars, liteVars>>

NextBusiness == IsBusinessRelationship \/ ActiveBusinessRel

SpecBusiness == InitBusiness /\ [][NextBusiness]_vars

\* ------------------------------------------------------------------
\* The relationship-quality pass
\* ------------------------------------------------------------------
Col(table, column, data_type) ==
    [table_name |-> S(table), column_name |-> S(column), data_type |-> S(data_type)]

QualityColumns ==
    <<Col("FactOrders", "CustomerKey", "Int64"),
      Col("DimCustomer", "CustomerKey", "Int64"),
      Col("vwpcse_factsurvey", "QueueID", "String"),
      Col("vwpcse_dimqueue", "QueueKey", "Int64"),
      Col("vwpcse_facttask", "QueueID", "Int64"),
      Col("vwpcse_dimqueue", "QueueID", "Int64")>>

\* relationships of a short listing: business ones (equal and differing key
\* types), one to an auto-generated calendar table, an inactive one and one
\* without a from_column
QualityRels ==
    {Rel(S("true"), S("vwpcse_factsurvey"), S("QueueID"), S("vwpcse_dimqueue"), S("QueueKey")),
     Rel(B(TRUE), S("vwpcse_facttask"), S("QueueID"), S("vwpcse_dimqueue"), S("QueueID")),
     Rel(B(TRUE), S("FactOrders"), S("OrderDate"), S("localdatetable_x"), S("Date")),
     Rel(B(FALSE), S("FactOrders"), S("ShipKey"), S("DimCustomer"), S("CustomerKey")),
     Rel(B(TRUE), S("FactOrders"), NONE, S("DimCustomer"), S("CustomerKey"))}

\* listings hold each relationship once
NoRepeats(seq) == \A i, j \in 1..Len(seq) : seq[i] = seq[j] => i = j

MaxShortRels == 2

ShortListings ==
    UNION {{seq \in [1..n -> QualityRels] : NoRepeats(seq)} : n \in 0..MaxShortRels}

\* a long listing: one fact with more business relationships than the summary holds
KeyNames ==
    <<"K01", "K02", "K03", "K04", "K05", "K06", "K07", "K08", "K09", "K10", "K11",
      "K12", "K13", "K14">>

LongRels == 11

LongListing ==
    [i \in 1..LongRels |->
        Rel(B(TRUE), S("vwpcse_factcase"), S(KeyNames[i]), S("Dim" \o KeyNames[i]), S(KeyNames[i]))]

QualityMds ==
    {[EmptyMd EXCEPT !.columns = QualityColumns, !.relationships = rels] :
        rels \in ShortListings \cup {LongListing}}

\* what the backend answers to the blank/total/distinct query
Raise == [t |-> "raise"]
Empty == [t |-> "empty"]
Row(blank_fk, total_rows, distinct_fk) ==
    [t |-> "row", blank_fk |-> blank_fk, total_rows |-> total_rows, distinct_fk |-> distinct_fk]
OrphanRow(orphan_fk) == [t |-> "row", orphan_fk |-> orphan_fk]

RowsAnswers ==
    {Raise, Empty,
     Row(NONE, N(1000), N(100)),    \* COUNTROWS of no blank rows is BLANK
     Row(N(20), N(1000), N(100)), Row(N(21), N(1000), N(100)),
     Row(N(50), N(1000), N(100)), Row(N(51), N(1000), N(100)),
     Row(N(0), N(1019), N(1019)),
     Row(N(0), N(0), N(0)),
     Row(N(20), NONE, NONE)}        \* the counts of the rows came back blank

\* ... and to the orphan query, which runs later and on its own: the fact
\* table may have changed in between
OrphanAnswers ==
    {Raise, OrphanRow(NONE), OrphanRow(N(0)), OrphanRow(N(2)), OrphanRow(N(3)), OrphanRow(N(5)),
     OrphanRow(N(6)), OrphanRow(N(51)), OrphanRow(N(101))}

\* a long listing is answered from a reduced set, to keep the state space small
LongRowsAnswers == {Raise, Row(N(51), N(1000), N(100))}
LongOrphanAnswers == {Raise}

IsLong(listing) == listing \notin ShortListings

InitQuality ==
    /\ pc = "profile"
    /\ md \in QualityMds
    /\ BusinessIdle
    /\ QualityIdle
    /\ AnalysisIdle
    /\ HealthIdle
    /\ LiteIdle
    /\ DataIdle
    /\ FactsIdle

\* lines 1154-1178: reset the counter, index the column types, the dual-key lint
RQ_Begin ==
    /\ pc = "profile"
    /\ pc' = "rq_loop"
    /\ q_i' = 1
    /\ lints' = IF dual_key_lint(md.relationships) THEN <<[kind |-> "dual_key"]>> ELSE <<>>
    /\ details' = <<>>
    /\ summary' = <<>>
    /\ filtered_auto_relationships' = 0
    /\ rel_quality' = NONE
    /\ rq_issued' = <<>>
    /\ UNCHANGED <<md, businessVars, dataVars, factsVars, liteVars, analysisVars, healthVars>>

is_skipped(relationship) ==
    \/ is_business_relationship(relationship) # "true"
    \/ ~Truthy(relationship.from_table) \/ ~Truthy(relationship.from_column)
    \/ ~Truthy(relationship.to_table) \/ ~Truthy(relationship.to_column)

counted_auto(relationship) ==
    is_auto_date_table(relationship.from_table) \/ is_auto_date_table(relationship.to_table)

mismatch_lint(entry) ==
    [kind |-> "type_mismatch", from |-> entry.from, to |-> entry.to,
     target_type |-> entry.comparison_type]

\* lines 1180-1317: one pass of the loop body; entry is the detail entry of a
\* relationship that is not skipped
RQ_Relationship(relationship, entry, queries) ==
    /\ filtered_auto_relationships' =
          IF counted_auto(relationship) THEN filtered_auto_relationships + 1
          ELSE filtered_auto_relationships
    /\ IF is_skipped(relationship)
       THEN UNCHANGED <<lints, details, summary, rq_issued>>
       ELSE /\ rq_issued' = rq_issued \o queries
            /\ lints' = IF entry.type_mismatch THEN Append(lints, mismatch_lint(entry)) ELSE lints
            /\ details' = Append(details, entry)
            /\ summary' = Append(summary,
                  [entry |-> entry, score |-> indicator_of(entry.coverage, entry.blank_ratio)])
    /\ q_i' = q_i + 1
    /\ UNCHANGED <<pc, md, rel_quality, businessVars, dataVars, factsVars, liteVars, analysisVars, healthVars>>

\* a skipped relationship issues no query
RQ_Skip ==
    /\ pc = "rq_loop"
    /\ q_i <= Len(md.relationships)
    /\ is_skipped(md.relationships[q_i])
    /\ RQ_Relationship(md.relationships[q_i], NONE, <<>>)

\* a business relationship issues the two count queries
RQ_Profile ==
    /\ pc = "rq_loop"
    /\ q_i <= Len(md.relationships)
    /\ ~is_skipped(md.relationships[q_i])
    /\ LET relationship == md.relationships[q_i]
           types == endpoint_types(md.columns, relationship)
       IN \E rows \in IF IsLong(md.relationships) THEN LongRowsAnswers ELSE RowsAnswers :
          \E orphan \in IF IsLong(md.relationships) THEN LongOrphanAnswers ELSE OrphanAnswers :
             RQ_Relationship(relationship,
                             detail_entry(relationship, types, rows, orphan),
                             quality_queries(relationship, types, rows, orphan))

\* lines 1319-1330: sort, cut to the first ten, return
RQ_Return ==
    /\ pc = "rq_loop"
    /\ q_i > Len(md.relationships)
    /\ pc' = "rq_done"
    /\ rel_quality' =
          [t |-> "dict",
           summary |-> top_summary_of(summary),
           details |-> details,
           lints |-> lints,
           filtered_auto_relationships |-> filtered_auto_relationships]
    /\ UNCHANGED <<md, q_i, lints, details, summary, filtered_auto_relationships, rq_issued, businessVars, dataVars, factsVars, liteVars, analysisVars, healthVars>>

\* json.py lines 471-482: choose the edges to profile
Lite_Begin ==
    /\ pc = "profile"
    /\ pc' = "lite_loop"
    /\ lite_edges_left' = lite_edges(md.relationships, RelationshipTopK)
    /\ lite_details' = <<>>
    /\ lite_result' = NONE
    /\ UNCHANGED <<md, businessVars, dataVars, factsVars, qualityVars, analysisVars, healthVars>>

\* json.py lines 483-539: one edge, its two count queries and its record
Lite_Edge ==
    /\ pc = "lite_loop"
    /\ lite_edges_left # <<>>
    /\ \E rows \in IF IsLong(md.relationships) THEN LongRowsAnswers ELSE RowsAnswers :
       \E orphan \in IF IsLong(md.relationships) THEN LongOrphanAnswers ELSE OrphanAnswers :
          lite_details' = Append(lite_details, lite_record(Head(lite_edges_left), rows, orphan))
    /\ lite_edges_left' = Tail(lite_edges_left)
    /\ UNCHANGED <<pc, md, lite_result, businessVars, dataVars, factsVars, qualityVars, analysisVars, healthVars>>

\* json.py line 541
Lite_Return ==
    /\ pc = "lite_loop"
    /\ lite_edges_left = <<>>
    /\ pc' = "lite_done"
    /\ lite_result' = [t |-> "dict", summary |-> lite_details]
    /\ UNCHANGED <<md, lite_edges_left, lite_details, businessVars, dataVars, factsVars, qualityVars, analysisVars, healthVars>>

NextQuality ==
    \/ RQ_Begin \/ RQ_Skip \/ RQ_Profile \/ RQ_Return
    \/ Lite_Begin \/ Lite_Edge \/ Lite_Return

SpecQuality == InitQuality /\ [][NextQuality]_vars

\* ------------------------------------------------------------------
\* The relationship-quality pass over endpoint columns of every declared type
\* ------------------------------------------------------------------
\* data_type as the columns query delivers it; None when it is blank
DeclaredTypes == {S("Int64"), S("String"), S("DateTime"), NONE}

CoercionRels ==
    <<Rel(B(TRUE), S("FactSurvey"), S("QueueID"), S("DimQueue"), S("QueueKey")),
      Rel(B(TRUE), S("FactOrders"), S("OrderDateKey"), S("DimDate"), S("DateKey")),
      Rel(B(FALSE), S("FactOrders"), S("ShipKey"), S("DimDate"), S("DateKey"))>>

CoercionColumns(a, b, c, d) ==
    <<[table_name |-> S("FactSurvey"), column_name |-> S("QueueID"), data_type |-> a],
      [table_name |-> S("DimQueue"), column_name |-> S("QueueKey"), data_type |-> b],
      [table_name |-> S("FactOrders"), column_name |-> S("OrderDateKey"), data_type |-> c],
      [table_name |-> S("DimDate"), column_name |-> S("DateKey"), data_type |-> d]>>

CoercionMds ==
    {[EmptyMd EXCEPT !.columns = CoercionColumns(a, b, c, d), !.relationships = CoercionRels] :
        a \in DeclaredTypes, b \in DeclaredTypes, c \in DeclaredTypes, d \in DeclaredTypes}

InitCoercion ==
    /\ pc = "profile"
    /\ md \in CoercionMds
    /\ BusinessIdle
    /\ QualityIdle
    /\ AnalysisIdle
    /\ HealthIdle
    /\ LiteIdle
    /\ DataIdle
    /\ FactsIdle

NextCoercion == RQ_Begin \/ RQ_Skip \/ RQ_Profile \/ RQ_Return

SpecCoercion == InitCoercion /\ [][NextCoercion]_vars

\* ------------------------------------------------------------------
\* Extraction, structure analysis and the quality pass over one backend
\* ------------------------------------------------------------------
Tab(name, hidden) == [table_name |-> name, is_hidden |-> hidden]

Meas(table, name) == [table_name |-> S(table), measure_name |-> S(name), is_hidden |-> B(FALSE)]

\* what INFO.VIEW.TABLES lists: fact, dimension and date tables, two
\* auto-generated calendar tables (one in lower case), a hidden table, a table
\* no rule matches, a link table, a fact without the naming prefix and a table
\* with an empty name
StructureTables ==
    <<Tab(S("FactOrders"), B(FALSE)),
      Tab(S("DimCustomer"), S("False")),
      Tab(S("DimDate"), NONE),
      Tab(S("LocalDateTable_9f3a"), B(FALSE)),
      Tab(S("datetabletemplate_1"), B(FALSE)),
      Tab(S("Staging"), B(TRUE)),
      Tab(S("Notes"), B(FALSE)),
      Tab(S("vwpcse_factlink"), N(0)),
      Tab(S("Sales"), B(FALSE)),
      Tab(S(""), B(FALSE))>>

StructureColumns ==
    <<Col("FactOrders", "OrderDateKey", "Int64"),
      Col("FactOrders", "CustomerKey", "Int64"),
      Col("FactOrders", "Amount", "Decimal"),
      Col("FactOrders", "OrderDate", "DateTime"),
      Col("DimCustomer", "CustomerKey", "Int64"),
      Col("DimCustomer", "Name", "String"),
      Col("DimCustomer", "City", "Text"),
      Col("DimDate", "DateKey", "Int64"),
      Col("DimDate", "CalendarDate", "DateTime"),
      Col("LocalDateTable_9f3a", "Date", "DateTime"),
      Col("Staging", "Id", "Int64"),
      Col("Notes", "Id", "Int64"),
      Col("vwpcse_factlink", "CustomerKey", "Int64"),
      Col("vwpcse_factlink", "DateKey", "Int64"),
      Col("Sales", "CustomerKey", "String"),
      Col("Sales", "DateKey", "Int64")>>

StructureMeasures == <<Meas("FactOrders", "Total Amount"), Meas("FactOrders", "Order Count")>>

StructureRelPool ==
    <<Rel(S("true"), S("FactOrders"), S("CustomerKey"), S("DimCustomer"), S("CustomerKey")),
      Rel(B(TRUE), S("FactOrders"), S("OrderDate"), S("LocalDateTable_9f3a"), S("Date")),
      Rel(B(TRUE), S("FactOrders"), S("OrderDateKey"), S("DimDate"), S("DateKey")),
      Rel(B(TRUE), S("DimCustomer"), S("Created"), S("datetabletemplate_1"), S("Date")),
      Rel(B(TRUE), S("Sales"), S("CustomerKey"), S("DimCustomer"), S("CustomerKey")),
      Rel(B(TRUE), S("FactOrders"), S("StagingKey"), S("Staging"), S("Id")),
      Rel(B(FALSE), S("FactOrders"), S("NoteKey"), S("Notes"), S("Id")),
      Rel(B(TRUE), S("vwpcse_factlink"), S("CustomerKey"), S("DimCustomer"), S("CustomerKey")),
      Rel(B(TRUE), S("vwpcse_factlink"), S("DateKey"), S("DimDate"), S("DateKey")),
      Rel(B(TRUE), S("FactOrders"), S("CustomerKey"), S("vwpcse_factlink"), S("CustomerKey")),
      Rel(B(TRUE), S("Sales"), S("CustomerKey"), S("vwpcse_factlink"), S("CustomerKey")),
      Rel(B(TRUE), S(""), S("CustomerKey"), S("DimCustomer"), S("CustomerKey")),
      Rel(B(TRUE), S(""), S("DateKey"), S("DimDate"), S("DateKey"))>>

\* the backend lists the first n tables and the first m relationships
Backends ==
    {[tables |-> SubSeq(StructureTables, 1, n),
      columns |-> StructureColumns,
      measures |-> StructureMeasures,
      relationships |-> SubSeq(StructureRelPool, 1, m),
      hierarchies |-> <<[hierarchy_name |-> S("Calendar")]>>,
      roles |-> <<[role_name |-> S("Reader")]>>] :
        n \in {3, 9, Len(StructureTables)}, m \in {0, 3, 7, 11, Len(StructureRelPool)}}

MaxFetchTroubles == Len(PrimaryCategories) + Len(FallbackCategories)

\* per category the outcome of its fetch; at most MaxFetchTroubles categories
\* do not answer their INFO.VIEW query
FetchOutcomes ==
    {o \in [{"tables", "columns", "measures", "relationships", "hierarchies", "roles"}
                -> {"info", "fallback", "failed"}] :
        /\ \A k \in {"tables", "columns", "measures", "relationships"} : o[k] # "fallback"
        /\ Cardinality({k \in DOMAIN o : o[k] # "info"}) <= MaxFetchTroubles}

\* an operation that has returned a result, not raised
Returned(result) == result # NONE /\ result # Raised

InitStructure ==
    /\ pc \in {"extract", "lite_extract"}
    /\ md = EmptyMd
    /\ BusinessIdle
    /\ QualityIdle
    /\ AnalysisIdle
    /\ HealthIdle
    /\ LiteIdle
    /\ DataIdle
    /\ FactsIdle

\* step 1 of generate_documentation
ExtractCompleteMetadata ==
    /\ pc = "extract"
    /\ \E backend \in Backends, outcome \in FetchOutcomes :
          /\ md' = extract_complete_metadata(backend, outcome)
          /\ fetched' = [backend |-> backend, failed |-> {k \in DOMAIN outcome : outcome[k] = "failed"}]
    /\ pc' = "analyze"
    /\ UNCHANGED <<businessVars, warehouse, passes, kinds, factsVars, liteVars, qualityVars, analysisVars, healthVars>>

\* step 2 of generate_documentation
AnalyzeModelStructure ==
    /\ pc = "analyze"
    /\ structure' = analyze_model_structure(md)
    /\ pc' = IF structure' = Raised THEN "raised" ELSE "profile"
    /\ UNCHANGED <<md, reclass, businessVars, dataVars, factsVars, liteVars, qualityVars, healthVars>>

\* _classify_table called once more for a business table of the same snapshot
ClassifyTable ==
    /\ pc = "profile"
    /\ structure # NONE
    /\ \E i \in 1..Len(md.business_tables) :
          LET name == get(md.business_tables[i], "table_name")
          IN reclass' = [table_name |-> name, type |-> classify_table(name, md)]
    /\ pc' = "classified"
    /\ UNCHANGED <<md, structure, businessVars, dataVars, factsVars, liteVars, qualityVars, healthVars>>

\* the four metadata queries of the lite documentor, each answered or failing
LiteFetchOutcomes ==
    {o \in [{"tables", "columns", "measures", "relationships"} -> {"info", "failed"}] :
        Cardinality({k \in DOMAIN o : o[k] # "info"}) <= MaxFetchTroubles}

\* json.py line 98: md = self._fetch_metadata(model_name, workspace)
LiteFetchMetadata ==
    /\ pc = "lite_extract"
    /\ \E backend \in Backends, outcome \in LiteFetchOutcomes :
          /\ md' = lite_fetch_metadata(backend, outcome)
          /\ fetched' = [backend |-> backend, failed |-> {k \in DOMAIN outcome : outcome[k] = "failed"}]
    /\ pc' = "lite_analyze"
    /\ UNCHANGED <<businessVars, warehouse, passes, kinds, factsVars, liteVars, qualityVars, analysisVars, healthVars>>

\* json.py line 99: st = self._analyze(md)
LiteAnalyze ==
    /\ pc = "lite_analyze"
    /\ lite_st' = lite_analyze(md)
    /\ pc' = IF lite_st' = Raised THEN "raised"
             ELSE IF tables_of_type(lite_st'.table_types, "fact") = <<>> THEN "lite_done"
             ELSE "lite_facts"
    /\ lf_i' = 1
    /\ lf_out' = <<>>
    /\ lf_issued' = <<>>
    /\ UNCHANGED <<md, businessVars, dataVars, liteVars, qualityVars, analysisVars, healthVars>>

NextStructure ==
    \/ ExtractCompleteMetadata
    \/ AnalyzeModelStructure
    \/ ClassifyTable
    \/ LiteFetchMetadata
    \/ LiteAnalyze
    \/ RQ_Begin
    \/ RQ_Skip
    \/ RQ_Profile
    \/ RQ_Return

SpecStructure == InitStructure /\ [][NextStructure]_vars

\* ------------------------------------------------------------------
\* Structure analysis and the data-health pass (_profile_data_health)
\* ------------------------------------------------------------------
AnchorTables ==
    <<Tab(S("FactOrders"), B(FALSE)), Tab(S("FactReturns"), B(FALSE)),
      Tab(S("DimDate"), B(FALSE)), Tab(S("DimCustomer"), B(FALSE))>>

\* FactOrders with two date columns of equal relevance and a time key
\* (FactReturns keeps its date as text)
DatedColumns ==
    <<Col("FactOrders", "OrderDateKey", "Int64"),
      Col("FactOrders", "OrderDate", "DateTime"),
      Col("FactOrders", "ShipDate", "DateTime"),
      Col("FactReturns", "ReturnDate", "String"),
      Col("DimDate", "DateKey", "Int64"),
      Col("DimDate", "CalendarDate", "DateTime"),
      Col("DimCustomer", "Name", "String")>>

\* FactOrders with a text time key only; FactReturns without a date-like column
KeyOnlyColumns ==
    <<Col("FactOrders", "OrderDateKey", "String"),
      Col("FactReturns", "ReturnId", "Int64"),
      Col("DimDate", "DateKey", "Int64"),
      Col("DimDate", "CalendarDate", "DateTime"),
      Col("DimDate", "FiscalMonth", "Date")>>

\* FactOrders with one date column and a closing time; a date dimension
\* without a date column
UndatedDimColumns ==
    <<Col("FactOrders", "OrderDateKey", "Int64"),
      Col("FactOrders", "ClosedTime", "String"),
      Col("FactOrders", "CreatedOn", "Date"),
      Col("DimDate", "DateKey", "Int64")>>

AnchorRels ==
    <<Rel(B(TRUE), S("FactOrders"), S("OrderDateKey"), S("DimDate"), S("DateKey")),
      Rel(B(TRUE), S("FactOrders"), S("CustomerKey"), S("DimCustomer"), S("CustomerKey")),
      Rel(B(TRUE), S("FactReturns"), S("OrderKey"), S("LocalDateTable_9f3a"), S("Date"))>>

AllInfo ==
    [k \in {"tables", "columns", "measures", "relationships", "hierarchies", "roles"} |-> "info"]

\* the snapshots the data-health pass is run on
AnchorMds ==
    {extract_complete_metadata(
        [tables |-> SubSeq(AnchorTables, n, Len(AnchorTables)), columns |-> columns,
         measures |-> <<>>, relationships |-> relationships,
         hierarchies |-> <<>>, roles |-> <<>>], AllInfo) :
        n \in {1, 2, 3},
        columns \in {DatedColumns, KeyOnlyColumns, UndatedDimColumns},
        relationships \in {AnchorRels, <<>>}}

\* what the backend answers to the row-count query: a failure, no row, a
\* blank cell or a count
RowCountAnswers ==
    {Raise, Empty, [t |-> "row", row_count |-> NAN], [t |-> "row", row_count |-> N(1200)]}

\* ... and to a profiling query: a failure, no row, a row with a blank anchor
\* or a row with an anchor (dates as day numbers)
AnchorAnswers ==
    {Raise, Empty,
     [t |-> "row", min |-> NAN, max |-> NAN, anchor |-> NAN, nonblank |-> N(0),
      cnt7 |-> NAN, cnt30 |-> NAN, cnt90 |-> NAN],
     [t |-> "row", min |-> N(19000), max |-> N(19700), anchor |-> N(19700), nonblank |-> N(1200),
      cnt7 |-> N(7), cnt30 |-> N(30), cnt90 |-> NAN]}

InitAnchor ==
    /\ pc = "analyze"
    /\ md \in AnchorMds
    /\ BusinessIdle
    /\ QualityIdle
    /\ AnalysisIdle
    /\ HealthIdle
    /\ LiteIdle
    /\ DataIdle
    /\ FactsIdle

\* the fact tables of the analysis, in the order of table_types
fact_tables_of(st) == tables_of_type(st.table_types, "fact")

\* lines 462-471: result = {...}; with no fact table both loops are empty
PH_Begin ==
    /\ pc = "profile"
    /\ Returned(structure)
    /\ ph_result' = [time_anchors |-> <<>>, facts_rowcount |-> <<>>]
    /\ IF fact_tables_of(structure) = <<>>
       THEN pc' = "ph_done" /\ profiles' = ph_result' /\ ph_i' = 0
       ELSE pc' = "ph_rowcount" /\ profiles' = profiles /\ ph_i' = 1
    /\ UNCHANGED <<md, ta_k, ta_cols, issued, businessVars, dataVars, factsVars, liteVars, qualityVars, analysisVars>>

\* lines 464-471: the row count of one fact table
PH_RowCount ==
    /\ pc = "ph_rowcount"
    /\ LET t == fact_tables_of(structure)[ph_i]
       IN \E answer \in RowCountAnswers :
             LET rc == IF answer.t = "row" /\ answer.row_count.t = "int"
                       THEN answer.row_count ELSE NONE
             IN /\ ph_result' = [ph_result EXCEPT !.facts_rowcount = dict_set(@, t, rc)]
                /\ issued' = Append(issued, [strategy |-> "row_count", table |-> t,
                                              column |-> NONE, answer |-> answer.t, anchor |-> NONE])
    /\ IF ph_i < Len(fact_tables_of(structure))
       THEN ph_i' = ph_i + 1 /\ pc' = pc
       ELSE ph_i' = 1 /\ pc' = "ta_begin"
    /\ UNCHANGED <<md, ta_k, ta_cols, profiles, businessVars, dataVars, factsVars, liteVars, qualityVars, analysisVars>>

\* the profile of the table at hand is returned and stored; the next table
\* follows, or the pass returns
TA_Return(table, profile) ==
    /\ ph_result' = [ph_result EXCEPT !.time_anchors = dict_set(@, table, profile)]
    /\ ta_k' = 0
    /\ ta_cols' = NONE
    /\ IF ph_i < Len(fact_tables_of(structure))
       THEN ph_i' = ph_i + 1 /\ pc' = "ta_begin" /\ profiles' = profiles
       ELSE ph_i' = ph_i /\ pc' = "ph_done" /\ profiles' = ph_result'

\* the profiler goes on to the given strategy; fallback sends no query
TA_Proceed(table, stage, cols, k) ==
    IF stage = "fallback" THEN TA_Return(table, fallback_profile(cols))
    ELSE /\ pc' = stage
         /\ ta_cols' = cols
         /\ ta_k' = k
         /\ UNCHANGED <<ph_i, ph_result, profiles>>

Query(strategy, table, column, answer) ==
    [strategy |-> strategy, table |-> table, column |-> column, answer |-> answer.t,
     anchor |-> IF answer.t = "row" THEN answer.anchor ELSE NONE]

\* lines 713-757: the candidate columns of the table at hand
TA_Begin ==
    /\ pc = "ta_begin"
    /\ LET table == fact_tables_of(structure)[ph_i]
           table_columns == columns_of(table, md.columns)
       IN \E typed_date_cols \in TypedOrders(table_columns) :
             LET cols == candidate_columns(table_columns, typed_date_cols)
             IN TA_Proceed(table, first_stage(table, md, cols), cols, 1)
    /\ UNCHANGED <<md, issued, businessVars, dataVars, factsVars, liteVars, qualityVars, analysisVars>>

\* lines 760-801: one direct candidate
TA_Direct ==
    /\ pc = "ta_direct"
    /\ LET table == fact_tables_of(structure)[ph_i]
           table_columns == columns_of(table, md.columns)
           candidate == direct_tried(ta_cols)[ta_k]
           target_expr == direct_target_expr(table, table_columns, candidate)
       IN \E answer \in AnchorAnswers :
             /\ issued' = Append(issued, Query("direct", table, candidate, answer))
             /\ IF HasAnchor(answer)
                THEN TA_Return(table, direct_profile(table, candidate, target_expr, answer))
                ELSE IF ta_k < Len(direct_tried(ta_cols))
                THEN TA_Proceed(table, "ta_direct", ta_cols, ta_k + 1)
                ELSE TA_Proceed(table, stage_after_direct(table, md, ta_cols), ta_cols, ta_k + 1)
    /\ UNCHANGED <<md, businessVars, dataVars, factsVars, liteVars, qualityVars, analysisVars>>

\* lines 802-942: the query through the date dimension
TA_ViaKey ==
    /\ pc = "ta_via_key"
    /\ LET table == fact_tables_of(structure)[ph_i]
           plan == via_key_plan(table, md)
       IN \E answer \in AnchorAnswers :
             /\ issued' = Append(issued, Query("via_key", table, plan.fact_key, answer))
             /\ IF HasAnchor(answer)
                THEN TA_Return(table, via_key_profile(table, plan, answer))
                ELSE TA_Proceed(table, stage_after_via_key(ta_cols), ta_cols, ta_k)
    /\ UNCHANGED <<md, businessVars, dataVars, factsVars, liteVars, qualityVars, analysisVars>>

\* lines 942-1044: the query over the first three typed date columns
TA_Coalesce ==
    /\ pc = "ta_coalesce"
    /\ LET table == fact_tables_of(structure)[ph_i]
       IN \E answer \in AnchorAnswers :
             /\ issued' = Append(issued, Query("coalesce", table,
                                               S(coalesce_expr(table, ta_cols)), answer))
             /\ IF HasAnchor(answer)
                THEN TA_Return(table, coalesce_profile(table, ta_cols, answer))
                ELSE TA_Return(table, fallback_profile(ta_cols))
    /\ UNCHANGED <<md, businessVars, dataVars, factsVars, liteVars, qualityVars, analysisVars>>

NextAnchor ==
    \/ AnalyzeModelStructure
    \/ PH_Begin
    \/ PH_RowCount
    \/ TA_Begin
    \/ TA_Direct
    \/ TA_ViaKey
    \/ TA_Coalesce

SpecAnchor == InitAnchor /\ [][NextAnchor]_vars

\* ------------------------------------------------------------------
\* The data-health pass over a backend that holds rows: the via_key query
\* is answered from the fact's key cells and the rows of the date dimension
\* ------------------------------------------------------------------
DimRow(key, date) == [key |-> key, date |-> date]

\* FactOrders[OrderDateKey] as text and as number
TextKeyCells ==
    {<<S("1")>>, <<S("2"), S("2")>>, <<NONE, S("x")>>, <<S("3"), S("1")>>, <<NONE>>}
NumberKeyCells ==
    {<<N(1)>>, <<N(2), N(2)>>, <<NONE, N(1)>>, <<N(3), N(1)>>, <<NONE>>}

\* DimDate[DateKey], DimDate[CalendarDate]
DimDateRows ==
    {<<>>,
     <<DimRow(N(1), N(19000)), DimRow(N(2), N(19700))>>,
     <<DimRow(N(1), N(19695)), DimRow(N(2), NONE), DimRow(N(3), N(19700))>>,
     <<DimRow(NONE, N(19800)), DimRow(N(1), N(19000)), DimRow(N(1), N(19500))>>,
     <<DimRow(N(2), N(18000)), DimRow(N(3), N(19999))>>}

\* FactOrders with a number time key only
NumberKeyColumns ==
    <<Col("FactOrders", "OrderDateKey", "Int64"),
      Col("DimDate", "DateKey", "Int64"),
      Col("DimDate", "CalendarDate", "DateTime")>>

ViaKeyMds ==
    {extract_complete_metadata(
        [tables |-> <<Tab(S("FactOrders"), B(FALSE)), Tab(S("DimDate"), B(FALSE))>>,
         columns |-> columns,
         measures |-> <<>>, relationships |-> AnchorRels,
         hierarchies |-> <<>>, roles |-> <<>>], AllInfo) :
        columns \in {NumberKeyColumns, KeyOnlyColumns, DatedColumns}}

InitViaKey ==
    /\ pc \in {"analyze", "lite_analyze"}
    /\ md \in ViaKeyMds
    /\ \E dim_rows \in DimDateRows :
          \E fact_keys \in (IF md.columns = KeyOnlyColumns THEN TextKeyCells ELSE NumberKeyCells) :
             warehouse = [fact_keys |-> fact_keys, dim_rows |-> dim_rows]
    /\ fetched = NONE
    /\ passes = <<>>
    /\ kinds = NONE
    /\ BusinessIdle
    /\ QualityIdle
    /\ AnalysisIdle
    /\ HealthIdle
    /\ LiteIdle
    /\ FactsIdle

\* lines 802-942 with the backend evaluating dax_key over its rows, or failing
TA_ViaKeyData ==
    /\ pc = "ta_via_key"
    /\ LET table == fact_tables_of(structure)[ph_i]
           plan == via_key_plan(table, md)
       IN \E answer \in {Raise, via_key_row(plan, warehouse)} :
             /\ issued' = Append(issued, Query("via_key", table, plan.fact_key, answer))
             /\ IF HasAnchor(answer)
                THEN TA_Return(table, via_key_profile(table, plan, answer))
                ELSE TA_Proceed(table, stage_after_via_key(ta_cols), ta_cols, ta_k)
    /\ UNCHANGED <<md, businessVars, dataVars, factsVars, liteVars, qualityVars, analysisVars>>

\* a query of the lite profiler as the runner saw it, with the anchor cell of
\* the row it answered
LiteQuery(strategy, table, answer) ==
    [strategy |-> strategy, table |-> table, answer |-> answer.t,
     anchor |-> IF answer.t = "row" /\ "anchor" \in DOMAIN answer THEN answer.anchor ELSE NONE]

\* json.py lines 350-463: one fact, its row count and its time payload
LF_Fact ==
    /\ pc = "lite_facts"
    /\ LET facts == tables_of_type(lite_st.table_types, "fact")
           fact == facts[lf_i]
       IN /\ \E count \in RowCountAnswers :
             \E via_key \in {Raise, lite_via_key_row(warehouse)} :
             \E direct \in AnchorAnswers :
             \E fallback \in {Raise, Empty} \cup lite_fallback_rows(warehouse) :
                LET asks == lite_asks(fact, md, lite_st, via_key, direct)
                IN /\ lf_out' = dict_set(lf_out, fact,
                                    [row_count |-> lite_row_count(count),
                                     time |-> lite_time_payload(fact, md, lite_st,
                                                                via_key, direct, fallback)])
                   /\ lf_issued' = lf_issued
                         \o <<LiteQuery("row_count", fact, count)>>
                         \o (IF asks.via_key THEN <<LiteQuery("via_key", fact, via_key)>> ELSE <<>>)
                         \o (IF asks.direct THEN <<LiteQuery("direct", fact, direct)>> ELSE <<>>)
                         \o (IF asks.fallback THEN <<LiteQuery("fallback", fact, fallback)>>
                             ELSE <<>>)
          /\ IF lf_i < Len(facts)
             THEN lf_i' = lf_i + 1 /\ pc' = pc
             ELSE lf_i' = lf_i /\ pc' = "lite_done"
    /\ UNCHANGED <<md, lite_st, businessVars, dataVars, liteVars, qualityVars, analysisVars,
                   healthVars>>

NextViaKey ==
    \/ AnalyzeModelStructure
    \/ PH_Begin
    \/ PH_RowCount
    \/ TA_Begin
    \/ TA_Direct
    \/ TA_ViaKeyData
    \/ TA_Coalesce
    \/ LiteAnalyze
    \/ LF_Fact

SpecViaKey == InitViaKey /\ [][NextViaKey]_vars

\* ------------------------------------------------------------------
\* The operations called on invalid input: a relationship record that is
\* None, a fact table whose name is empty
\* ------------------------------------------------------------------
NamelessTables ==
    <<Tab(S(""), B(FALSE)), Tab(S("FactOrders"), B(FALSE)), Tab(S("DimDate"), B(FALSE)),
      Tab(S("DimCustomer"), B(FALSE))>>

\* the nameless table with a date column of its own, and without one
NamelessDatedColumns ==
    <<Col("", "CreatedDate", "DateTime"),
      Col("", "Amount", "Decimal"),
      Col("FactOrders", "OrderDate", "DateTime"),
      Col("FactOrders", "ShipDate", "DateTime"),
      Col("DimDate", "DateKey", "Int64"),
      Col("DimDate", "CalendarDate", "DateTime")>>

NamelessPlainColumns ==
    <<Col("", "Amount", "Decimal"),
      Col("FactOrders", "OrderDate", "DateTime"),
      Col("FactOrders", "ShipDate", "DateTime"),
      Col("DimDate", "DateKey", "Int64"),
      Col("DimDate", "CalendarDate", "DateTime")>>

NamelessRels ==
    <<Rel(B(TRUE), S(""), S("DateKey"), S("DimDate"), S("DateKey")),
      Rel(B(TRUE), S(""), S("CustomerKey"), S("DimCustomer"), S("CustomerKey")),
      Rel(B(TRUE), S("FactOrders"), S("OrderDateKey"), S("DimDate"), S("DateKey"))>>

NamelessMds ==
    {extract_complete_metadata(
        [tables |-> SubSeq(NamelessTables, n, Len(NamelessTables)), columns |-> columns,
         measures |-> <<>>, relationships |-> relationships,
         hierarchies |-> <<>>, roles |-> <<>>], AllInfo) :
        n \in {1, 2},
        columns \in {NamelessDatedColumns, NamelessPlainColumns},
        relationships \in {NamelessRels, <<>>}}

\* the st a caller hands to _profile_data_health: the business tables named
\* fact*, and the nameless one, as facts
supplied_structure(snapshot) ==
    LET facts == SelectSeq([i \in 1..Len(snapshot.business_tables) |->
                                get(snapshot.business_tables[i], "table_name")],
                           LAMBDA n : n = S("") \/ startswith(lower(StrOr(n)), "fact"))
    IN [table_types |-> [i \in 1..Len(facts) |-> [key |-> facts[i], value |-> S("fact")]]]

InitReject ==
    \/ InitBusiness
    \/ /\ pc \in {"analyze", "profile"}
       /\ md \in NamelessMds
       /\ structure = (IF pc = "profile" THEN supplied_structure(md) ELSE NONE)
       /\ reclass = NONE
       /\ BusinessIdle
       /\ QualityIdle
       /\ HealthIdle
       /\ LiteIdle
       /\ DataIdle
       /\ FactsIdle

NextReject ==
    \/ IsBusinessRelationship
    \/ ActiveBusinessRel
    \/ AnalyzeModelStructure
    \/ PH_Begin
    \/ PH_RowCount
    \/ TA_Begin
    \/ TA_Direct
    \/ TA_ViaKey
    \/ TA_Coalesce

SpecReject == InitReject /\ [][NextReject]_vars

\* ------------------------------------------------------------------
\* Two relationship-quality passes on one documentor: each call has its own
\* snapshot and loop index, self.filtered_auto_relationships is shared
\* ------------------------------------------------------------------
AutoRel == Rel(B(TRUE), S("FactOrders"), S("OrderDate"), S("LocalDateTable_9f3a"), S("Date"))
TemplateRel == Rel(B(FALSE), S("DateTableTemplate_1"), S("Date"), S("DimDate"), S("DateKey"))
PlainRel == Rel(B(TRUE), S("FactOrders"), S("CustomerKey"), S("DimCustomer"), S("CustomerKey"))

\* the relationships of the snapshots handed to the calls
ConcurrentListings ==
    {<<>>, <<PlainRel>>, <<AutoRel>>, <<AutoRel, PlainRel>>, <<PlainRel, TemplateRel>>,
     <<AutoRel, TemplateRel>>, <<AutoRel, PlainRel, TemplateRel>>}

Callers == {1, 2}

\* line 1181: an endpoint of the relationship is an auto-generated calendar table
has_auto_endpoint(relationship) ==
    \/ is_auto_date_table(get(relationship, "from_table"))
    \/ is_auto_date_table(get(relationship, "to_table"))

InitConcurrent ==
    /\ pc = "concurrent"
    /\ md = EmptyMd
    /\ \E first \in ConcurrentListings, second \in ConcurrentListings :
          passes = [p \in Callers |->
                      [at |-> "begin",
                       relationships |-> IF p = 1 THEN first ELSE second,
                       i |-> 1, loaded |-> 0, returned |-> NONE]]
    /\ warehouse = NONE
    /\ fetched = NONE
    /\ kinds = NONE
    /\ BusinessIdle
    /\ QualityIdle
    /\ AnalysisIdle
    /\ HealthIdle
    /\ LiteIdle
    /\ FactsIdle

ConcurrentFrame ==
    UNCHANGED <<pc, md, q_i, lints, details, summary, rel_quality, rq_issued, warehouse, fetched, kinds,
                businessVars, factsVars, liteVars, analysisVars, healthVars>>

\* line 1158: self.filtered_auto_relationships = 0
CP_Begin(p) ==
    /\ passes[p].at = "begin"
    /\ filtered_auto_relationships' = 0
    /\ passes' = [passes EXCEPT ![p].at = "loop"]
    /\ ConcurrentFrame

\* lines 1180-1182: the next relationship; the counter is read for += 1
CP_Relationship(p) ==
    /\ passes[p].at = "loop"
    /\ passes' =
          IF passes[p].i > Len(passes[p].relationships)
          THEN [passes EXCEPT ![p].at = "return"]
          ELSE IF has_auto_endpoint(passes[p].relationships[passes[p].i])
          THEN [passes EXCEPT ![p].at = "store", ![p].loaded = filtered_auto_relationships]
          ELSE [passes EXCEPT ![p].i = @ + 1]
    /\ UNCHANGED filtered_auto_relationships
    /\ ConcurrentFrame

\* line 1182: the incremented value is stored; lines 1183-1316: the rest of
\* the iteration works on locals of the call
CP_Store(p) ==
    /\ passes[p].at = "store"
    /\ filtered_auto_relationships' = passes[p].loaded + 1
    /\ passes' = [passes EXCEPT ![p].at = "loop", ![p].i = @ + 1]
    /\ ConcurrentFrame

\* lines 1325-1330: the counter is read into the returned dict
CP_Return(p) ==
    /\ passes[p].at = "return"
    /\ passes' = [passes EXCEPT ![p].at = "done", ![p].returned = N(filtered_auto_relationships)]
    /\ UNCHANGED filtered_auto_relationships
    /\ ConcurrentFrame

NextConcurrent ==
    \E p \in Callers : CP_Begin(p) \/ CP_Relationship(p) \/ CP_Store(p) \/ CP_Return(p)

SpecConcurrent == InitConcurrent /\ [][NextConcurrent]_vars

\* ------------------------------------------------------------------
\* The structure analysis of a snapshot around one table: its name, the
\* number and type of its columns, its measures and its relationships vary
\* ------------------------------------------------------------------
\* names with and without the fact prefix, in several cases, two of them date-like
SubjectNames == {"FactOrders", "FACTDate", "VwPcse_FactCalendarLink", "DimDate", "Orders"}
SubjectColumnNames == <<"CustomerKey", "DateKey", "Amount", "Created">>
SubjectColumnTypes == {"Int64", "DateTime", "String"}
SubjectTargets == <<"DimCustomer", "DimProduct", "DimRegion">>
SubjectSources == <<"Sales", "Returns", "Budget">>
MaxSubjectRels == Len(SubjectTargets)
MaxSubjectMeasures == 2

\* relationships that are no business relationships of the subject: an
\* inactive one, one to and one from an auto-generated calendar table
SubjectNoise(name) ==
    <<Rel(B(FALSE), S(name), S("Key"), S("DimCustomer"), S("Key")),
      Rel(B(TRUE), S(name), S("Created"), S("LocalDateTable_9f3a"), S("Date")),
      Rel(N(1), S("datetabletemplate_1"), S("Date"), S(name), S("Created"))>>

SubjectBackend(name, columns, data_type, measures, outgoing, incoming, noise) ==
    [tables |-> <<Tab(S(name), B(FALSE)), Tab(S("DimCustomer"), B(FALSE))>>,
     columns |-> [i \in 1..columns |-> Col(name, SubjectColumnNames[i], data_type)]
                    \o <<Col("DimCustomer", "Key", "Int64"), Col("DimCustomer", "Name", "String")>>,
     measures |-> [i \in 1..measures |-> Meas(name, SubjectColumnNames[i])],
     relationships |->
        [i \in 1..outgoing |-> Rel(B(TRUE), S(name), S("Key"), S(SubjectTargets[i]), S("Key"))]
           \o [i \in 1..incoming |->
                  Rel(S("true"), S(SubjectSources[i]), S("Key"), S(name), S("Key"))]
           \o (IF noise THEN SubjectNoise(name) ELSE <<>>),
     hierarchies |-> <<>>, roles |-> <<>>]

SubjectMds ==
    {extract_complete_metadata(
        SubjectBackend(name, columns, data_type, measures, outgoing, incoming, noise), AllInfo) :
        name \in SubjectNames, columns \in 0..Len(SubjectColumnNames),
        data_type \in SubjectColumnTypes, measures \in 0..MaxSubjectMeasures,
        outgoing \in 0..MaxSubjectRels, incoming \in 0..MaxSubjectRels, noise \in BOOLEAN}

InitClassify ==
    /\ pc = "analyze"
    /\ md \in SubjectMds
    /\ BusinessIdle
    /\ QualityIdle
    /\ AnalysisIdle
    /\ HealthIdle
    /\ LiteIdle
    /\ DataIdle
    /\ FactsIdle

NextClassify ==
    \/ AnalyzeModelStructure
    \/ ClassifyTable

SpecClassify == InitClassify /\ [][NextClassify]_vars

\* ------------------------------------------------------------------
\* The structure analysis of a fact with relationships to several date-like
\* tables, listed in any order
\* ------------------------------------------------------------------
TimeKeyTables ==
    <<Tab(S("FactOrders"), B(FALSE)), Tab(S("FiscalCalendar"), B(FALSE)),
      Tab(S("DimDate"), B(FALSE)), Tab(S("DimCustomer"), B(FALSE))>>

TimeKeyColumns ==
    <<Col("FactOrders", "OrderDateKey", "Int64"),
      Col("FactOrders", "ShipDateKey", "Int64"),
      Col("FactOrders", "CustomerKey", "Int64"),
      Col("DimDate", "DateKey", "Int64"),
      Col("DimDate", "CalendarDate", "DateTime"),
      Col("FiscalCalendar", "DateKey", "Int64"),
      Col("FiscalCalendar", "Date", "DateTime"),
      Col("DimCustomer", "CustomerKey", "Int64")>>

\* to DimDate, to the calendar, to DimDate without a from_column, to DimDate
\* but inactive, and to a table that is not date-like
TimeKeyRelPool ==
    {Rel(B(TRUE), S("FactOrders"), S("OrderDateKey"), S("DimDate"), S("DateKey")),
     Rel(B(TRUE), S("FactOrders"), S("ShipDateKey"), S("FiscalCalendar"), S("DateKey")),
     Rel(B(TRUE), S("FactOrders"), S(""), S("DimDate"), S("DateKey")),
     Rel(B(FALSE), S("FactOrders"), S("DueDateKey"), S("DimDate"), S("DateKey")),
     Rel(B(TRUE), S("FactOrders"), S("CustomerKey"), S("DimCustomer"), S("CustomerKey"))}

MaxTimeKeyRels == 3

\* every listing of up to MaxTimeKeyRels relationships of the pool, in every order
TimeKeyListings ==
    UNION {{seq \in [1..n -> TimeKeyRelPool] : NoRepeats(seq)} : n \in 0..MaxTimeKeyRels}

TimeKeyMds ==
    {extract_complete_metadata(
        [tables |-> TimeKeyTables, columns |-> TimeKeyColumns, measures |-> <<>>,
         relationships |-> relationships, hierarchies |-> <<>>, roles |-> <<>>], AllInfo) :
        relationships \in TimeKeyListings}

InitTimeKey ==
    /\ pc \in {"analyze", "lite_analyze"}
    /\ md \in TimeKeyMds
    /\ BusinessIdle
    /\ QualityIdle
    /\ AnalysisIdle
    /\ HealthIdle
    /\ LiteIdle
    /\ DataIdle
    /\ FactsIdle

NextTimeKey ==
    \/ AnalyzeModelStructure
    \/ LiteAnalyze

SpecTimeKey == InitTimeKey /\ [][NextTimeKey]_vars

\* ------------------------------------------------------------------
\* Both documentors over a date dimension whose columns vary: the full one
\* up to the via_key profile of the fact, the lite one up to its analysis
\* ------------------------------------------------------------------
\* columns DimDate may have besides its key: preferred names with and without
\* a date type, and other columns
DimColumnPool ==
    {Col("DimDate", "CalendarDate", "DateTime"),
     Col("DimDate", "Date", "Int64"),
     Col("DimDate", "DateValue", "DateTime"),
     Col("DimDate", "FiscalMonth", "Date"),
     Col("DimDate", "MonthName", "String")}

MaxDimColumns == 3

DimColumnListings ==
    UNION {{seq \in [1..n -> DimColumnPool] : NoRepeats(seq)} : n \in 0..MaxDimColumns}

\* FactOrders has its time key only
DateColumnMds ==
    {extract_complete_metadata(
        [tables |-> <<Tab(S("FactOrders"), B(FALSE)), Tab(S("DimDate"), B(FALSE))>>,
         columns |-> <<Col("FactOrders", "OrderKey", "Int64"), Col("DimDate", "DateKey", "Int64")>>
                        \o listing,
         measures |-> <<>>,
         relationships |->
            <<Rel(B(TRUE), S("FactOrders"), S("OrderKey"), S("DimDate"), S("DateKey"))>>,
         hierarchies |-> <<>>, roles |-> <<>>], AllInfo) :
        listing \in DimColumnListings}

InitDateColumn ==
    /\ pc \in {"analyze", "lite_analyze"}
    /\ md \in DateColumnMds
    /\ BusinessIdle
    /\ QualityIdle
    /\ AnalysisIdle
    /\ HealthIdle
    /\ LiteIdle
    /\ DataIdle
    /\ FactsIdle

\* FactOrders has no date-like column: no direct and no coalesce query is sent
NextDateColumn ==
    \/ AnalyzeModelStructure
    \/ PH_Begin
    \/ PH_RowCount
    \/ TA_Begin
    \/ TA_ViaKey
    \/ LiteAnalyze

SpecDateColumn == InitDateColumn /\ [][NextDateColumn]_vars

\* ------------------------------------------------------------------
\* C1
\* ------------------------------------------------------------------
Classifications == {S("fact"), S("dimension"), S("bridge"), S("other")}

\* the auto-generated calendar tables among StructureTables
StructureAutoNames == {"LocalDateTable_9f3a", "datetabletemplate_1"}

\* not auto-generated and not hidden
IsBusinessTable(t) == t.table_name.s \notin StructureAutoNames /\ t.is_hidden # B(TRUE)

\* C1: for every metadata snapshot the structure analysis assigns every
\* business table (not auto-generated, not hidden) exactly one classification
\* out of fact, dimension, bridge, other, and classifying the same table against
\* the same snapshot again gives the same value.
C1_OneClassification ==
    Returned(structure) =>
        LET table_types == structure.table_types
        IN /\ \A i \in 1..Len(md.tables) :
                 IsBusinessTable(md.tables[i]) =>
                    /\ Cardinality({k \in 1..Len(table_types) :
                                       table_types[k].key = md.tables[i].table_name}) = 1
                    /\ \A k \in 1..Len(table_types) :
                          table_types[k].key = md.tables[i].table_name
                             => table_types[k].value \in Classifications
           /\ reclass # NONE =>
                 \E k \in 1..Len(table_types) :
                    /\ table_types[k].key = reclass.table_name
                    /\ table_types[k].value = reclass.type

\* a snapshot in which all four classifications occur, and the link table was
\* classified bridge a second time
C1_Witness ==
    /\ Returned(structure)
    /\ \A c \in Classifications :
          \E k \in 1..Len(structure.table_types) : structure.table_types[k].value = c
    /\ reclass # NONE
    /\ reclass.table_name = S("vwpcse_factlink")
    /\ reclass.type = S("bridge")

\* ------------------------------------------------------------------
\* C2
\* ------------------------------------------------------------------
\* the flags of FlagPool that say "active"
ActiveFlags == {B(TRUE), N(1), S("true"), S(" Yes "), S("T"), S("1")}

\* the names of EndpointPool that carry an auto-generated calendar prefix
AutoDateNames ==
    {S("LocalDateTable_1a"), S("localdatetable_x"), S("DATETABLETEMPLATE_Z"),
     S("DateTableTemplate_9")}

ExpectedBusiness(r) ==
    /\ r.is_active \in ActiveFlags
    /\ r.from_table \notin AutoDateNames
    /\ r.to_table \notin AutoDateNames

IsAutoName(v) == v.t = "str" /\ v.s \in StructureAutoNames

\* a "table[column]" reference to an auto-generated calendar table
RefersToAuto(ref) ==
    \E a \in StructureAutoNames : Len(ref) > Len(a) /\ SubSeq(ref, 1, Len(a) + 1) = a \o "["

NoAutoEndpoint(entries) ==
    \A i \in 1..Len(entries) : ~RefersToAuto(entries[i].from) /\ ~RefersToAuto(entries[i].to)

\* C3: for every metadata snapshot no auto-generated calendar table is a key
\* of the table classification, a fact or a dimension edge target of the
\* star-schema map, an endpoint in the key-relationship list, or an endpoint of
\* a relationship-quality record (summary or details).
C3_NoAutoDateDownstream ==
    /\ Returned(structure) =>
          /\ \A k \in 1..Len(structure.table_types) : ~IsAutoName(structure.table_types[k].key)
          /\ \A k \in 1..Len(structure.star_schema) :
                /\ ~IsAutoName(structure.star_schema[k].key)
                /\ \A d \in 1..Len(structure.star_schema[k].value.dimensions) :
                      ~IsAutoName(structure.star_schema[k].value.dimensions[d].dimension_table)
          /\ NoAutoEndpoint(structure.key_relationships)
    /\ NoAutoEndpoint(details)
    /\ rel_quality # NONE =>
          /\ NoAutoEndpoint(rel_quality.details)
          /\ NoAutoEndpoint([i \in 1..Len(rel_quality.summary) |-> rel_quality.summary[i].entry])

\* the snapshot lists both calendar tables and two relationships that end in
\* them; the star schema, the key relationships and the quality records are
\* filled
C3_Witness ==
    /\ pc = "rq_done"
    /\ Returned(structure)
    /\ Len(md.auto_date_tables) = 2
    /\ rel_quality.filtered_auto_relationships = 2
    /\ Len(rel_quality.summary) >= 2
    /\ Len(structure.key_relationships) >= 2
    /\ \E k \in 1..Len(structure.star_schema) : Len(structure.star_schema[k].value.dimensions) >= 2

\* ------------------------------------------------------------------
\* C4, C5
\* ------------------------------------------------------------------
\* the profiling queries sent for a fact table, in the order they were sent
QueriesOf(table) ==
    SelectSeq(issued, LAMBDA q : q.table = table /\ q.strategy # "row_count")

StrategyRank(strategy) ==
    CASE strategy = "direct" -> 1 [] strategy = "via_key" -> 2 [] strategy = "coalesce" -> 3

\* the query came back with a row whose anchor is a date
Anchored(q) == q.answer = "row" /\ q.anchor.t = "int"

\* the strategy a returned profile names
StrategyOf(profile) ==
    IF "anchor_expr_direct" \in DOMAIN profile THEN "direct"
    ELSE IF "anchor_via_key" \in DOMAIN profile THEN "via_key"
    ELSE IF "anchor_via_coalesce" \in DOMAIN profile THEN "coalesce"
    ELSE "fallback"

\* the date-like columns of a fact table: date-typed, or named *date* or *time*
DateLikeNames(table) ==
    {md.columns[i].column_name : i \in
        {j \in 1..Len(md.columns) :
            /\ md.columns[j].table_name = table
            /\ \/ \E w \in {"date", "time"} : contains(lower(md.columns[j].column_name.s), w)
               \/ contains(lower(md.columns[j].data_type.s), "date")}}

\* the fact has a business relationship to a date dimension that has a date column
HasTimeKey(table) ==
    \E i \in 1..Len(md.relationships) :
        /\ md.relationships[i].from_table = table
        /\ md.relationships[i].to_table = S("DimDate")
        /\ \E j \in 1..Len(md.columns) :
              /\ md.columns[j].table_name = S("DimDate")
              /\ contains(lower(md.columns[j].data_type.s), "date")

CountOf(queries, strategy) ==
    Cardinality({i \in 1..Len(queries) : queries[i].strategy = strategy})

FactNames == {S("FactOrders"), S("FactReturns")}

\* C4: the time-anchor profiler tries direct, via_key, coalesce, fallback in
\* this order: a later strategy's query is sent only after every earlier
\* strategy failed, returned no row or returned a null anchor, and as soon as
\* one query returns a non-null anchor the profile of that strategy is returned
\* and no further query is sent for that table.
C4_StrategyOrder ==
    \A table \in FactNames :
        LET queries == QueriesOf(table)
            n == Len(queries)
        IN /\ \A i, j \in 1..n : i < j =>
                 /\ StrategyRank(queries[i].strategy) <= StrategyRank(queries[j].strategy)
                 /\ ~Anchored(queries[i])
           /\ (\E i \in 1..n : queries[i].strategy # "direct") =>
                 /\ CountOf(queries, "direct") = Cardinality(DateLikeNames(table))
                 /\ \A c \in DateLikeNames(table) :
                       \E i \in 1..n : queries[i].strategy = "direct" /\ queries[i].column = c
           /\ (\E i \in 1..n : queries[i].strategy = "coalesce") =>
                 CountOf(queries, "via_key") = (IF HasTimeKey(table) THEN 1 ELSE 0)
           /\ CountOf(queries, "via_key") <= 1
           /\ CountOf(queries, "coalesce") <= 1
           /\ (ph_result # NONE /\ dict_has(ph_result.time_anchors, table)) =>
                 LET profile == dict_get(ph_result.time_anchors, table)
                 IN IF n > 0 /\ Anchored(queries[n])
                    THEN /\ StrategyOf(profile) = queries[n].strategy
                         /\ profile.anchor = queries[n].anchor
                    ELSE /\ StrategyOf(profile) = "fallback"
                         /\ profile.anchor = NONE

\* FactOrders: the three direct candidates and via_key gave no anchor (a
\* failure, no row, null anchors), coalesce gave one and its profile was returned
C4_Witness ==
    /\ ph_result # NONE
    /\ dict_has(ph_result.time_anchors, S("FactOrders"))
    /\ StrategyOf(dict_get(ph_result.time_anchors, S("FactOrders"))) = "coalesce"
    /\ LET queries == QueriesOf(S("FactOrders"))
       IN /\ Len(queries) = 5
          /\ [i \in 1..5 |-> queries[i].strategy]
                = <<"direct", "direct", "direct", "via_key", "coalesce">>
          /\ [i \in 1..5 |-> queries[i].answer] = <<"raise", "empty", "row", "row", "row">>

AllNull(profile) ==
    \A f \in {"min", "max", "anchor", "nonblank", "cnt7", "cnt30", "cnt90"} : profile[f] = NONE

\* C5: whatever the queries do (raise, return no rows, return a null anchor),
\* profiling a fact table with a non-empty name returns a profile and never
\* raises; when every strategy fails the profile has min, max, anchor, nonblank,
\* cnt7, cnt30 and cnt90 all null; and the data-health pass ends with a
\* row-count entry and a time-anchor entry for every fact table.
C5_ProfilerNeverRaises ==
    /\ pc # "raised"
    /\ Returned(structure) =>
          \A i \in 1..Len(structure.table_types) :
             structure.table_types[i].value = S("fact") => structure.table_types[i].key \in FactNames
    /\ ph_result # NONE =>
          \A k \in 1..Len(ph_result.time_anchors) :
             LET entry == ph_result.time_anchors[k]
                 queries == QueriesOf(entry.key)
             IN (\A i \in 1..Len(queries) : ~Anchored(queries[i])) => AllNull(entry.value)
    /\ pc = "ph_done" =>
          /\ profiles = ph_result
          /\ \A i \in 1..Len(structure.table_types) :
                structure.table_types[i].value = S("fact") =>
                   LET name == structure.table_types[i].key
                   IN /\ Cardinality({k \in 1..Len(profiles.facts_rowcount) :
                                         profiles.facts_rowcount[k].key = name}) = 1
                      /\ Cardinality({k \in 1..Len(profiles.time_anchors) :
                                         profiles.time_anchors[k].key = name}) = 1
          /\ \A k \in 1..Len(profiles.facts_rowcount) :
                profiles.facts_rowcount[k].value = NONE \/ profiles.facts_rowcount[k].value.t = "int"

\* every query about FactOrders failed (its row count and its five profiling
\* queries), its profile is all null, and FactReturns still has its row count
\* and an anchored profile
C5_Witness ==
    /\ pc = "ph_done"
    /\ dict_has(profiles.facts_rowcount, S("FactOrders"))
    /\ dict_has(profiles.facts_rowcount, S("FactReturns"))
    /\ dict_get(profiles.facts_rowcount, S("FactOrders")) = NONE
    /\ Len(QueriesOf(S("FactOrders"))) = 5
    /\ {QueriesOf(S("FactOrders"))[i].answer : i \in 1..5} = {"raise", "empty", "row"}
    /\ AllNull(dict_get(profiles.time_anchors, S("FactOrders")))
    /\ dict_get(profiles.facts_rowcount, S("FactReturns")) = N(1200)
    /\ dict_get(profiles.time_anchors, S("FactReturns")).anchor = N(19700)

\* ------------------------------------------------------------------
\* C6 - C10: relationship quality
\* ------------------------------------------------------------------
\* r < num/den and r > num/den for a ratio r, by cross-multiplication
Below(r, num, den) == r.n * den < num * r.d
Above(r, num, den) == r.n * den > num * r.d

ExpectedSeverity(coverage, blank_ratio) ==
    IF (coverage # NONE /\ Below(coverage, 95, 100))
       \/ (blank_ratio # NONE /\ Above(blank_ratio, 5, 100)) THEN "red"
    ELSE IF (coverage # NONE /\ Below(coverage, 98, 100))
       \/ (blank_ratio # NONE /\ Above(blank_ratio, 2, 100)) THEN "yellow"
    ELSE "green"

IsRatio(r, num, den) == r # NONE /\ r.n * den = num * r.d

\* the detailed pass follows the rule on every record it emits
FullPassSeverity ==
    \A i \in 1..Len(details) :
        LET e == details[i]
        IN /\ e.severity = ExpectedSeverity(e.coverage, e.blank_ratio)
           /\ (e.blank_fk = N(50) /\ IsRatio(e.blank_ratio, 50, 1000) /\ IsRatio(e.coverage, 97, 100))
                 => e.severity = "yellow"

UpperCase(sev) ==
    CASE sev = "red" -> "RED" [] sev = "yellow" -> "YELLOW" [] sev = "green" -> "GREEN"

\* C6: every relationship-quality record, of the detailed pass and of the lite
\* pass, is RED when its coverage < 0.95 or its blank_ratio > 0.05, else YELLOW
\* when its coverage < 0.98 or its blank_ratio > 0.02, else GREEN; the
\* blank_ratio bounds are strict, so 50 blank of 1000 rows with coverage 0.97
\* is YELLOW.
C6_Severity ==
    /\ FullPassSeverity
    /\ \A i \in 1..Len(lite_details) :
          LET e == lite_details[i]
          IN e.severity = UpperCase(ExpectedSeverity(e.coverage, e.blank_fk_ratio))

\* a record with blank_fk = 50 of 1000 rows and coverage 0.97 was emitted as YELLOW
C6_Witness ==
    \E i \in 1..Len(details) :
        /\ details[i].blank_fk = N(50)
        /\ IsRatio(details[i].blank_ratio, 50, 1000)
        /\ IsRatio(details[i].coverage, 97, 100)
        /\ details[i].severity = "yellow"

InUnitInterval(r) == r = NONE \/ (r.n >= 0 /\ r.n <= r.d)

\* C7: in every relationship-quality record coverage and blank_ratio are each
\* null or within [0, 1], whatever the two count queries return.
C7_RatiosInUnitInterval ==
    /\ \A i \in 1..Len(details) :
          InUnitInterval(details[i].coverage) /\ InUnitInterval(details[i].blank_ratio)
    /\ \A i \in 1..Len(lite_details) :
          InUnitInterval(lite_details[i].coverage) /\ InUnitInterval(lite_details[i].blank_fk_ratio)

Badness(sev) == CASE sev = "red" -> 2 [] sev = "yellow" -> 1 [] OTHER -> 0

SameRatio(a, b) == (a = NONE /\ b = NONE) \/ (a # NONE /\ b # NONE /\ a.n * b.d = b.n * a.d)

\* C8: for two relationships with equal blank_ratio and coverage(A) <= coverage(B),
\* severity(A) is at least as bad as severity(B) (RED worse than YELLOW worse
\* than GREEN).
C8_SeverityMonotonic ==
    \A i, j \in 1..Len(details) :
        LET a == details[i]
            b == details[j]
        IN (/\ SameRatio(a.blank_ratio, b.blank_ratio)
            /\ a.coverage # NONE /\ b.coverage # NONE
            /\ ~Above(a.coverage, b.coverage.n, b.coverage.d))
           => Badness(a.severity) >= Badness(b.severity)

\* two records with the same blank_ratio, the one with the lower coverage RED and
\* the other GREEN
C8_Witness ==
    \E i, j \in 1..Len(details) :
        /\ SameRatio(details[i].blank_ratio, details[j].blank_ratio)
        /\ details[i].coverage # NONE /\ details[j].coverage # NONE
        /\ Below(details[i].coverage, details[j].coverage.n, details[j].coverage.d)
        /\ details[i].severity = "red"
        /\ details[j].severity = "green"

\* indicator = max(blank_ratio, 1 - coverage), a null ratio counting as 0
ExpectedIndicator(e) ==
    LET b == IF e.blank_ratio = NONE THEN Zero ELSE e.blank_ratio
        c == IF e.coverage = NONE THEN Zero ELSE RatSub(One, e.coverage)
    IN IF Above(c, b.n, b.d) THEN c ELSE b

StrictlyWorse(a, b) ==
    \/ Badness(a.severity) > Badness(b.severity)
    \/ /\ Badness(a.severity) = Badness(b.severity)
       /\ Above(ExpectedIndicator(a), ExpectedIndicator(b).n, ExpectedIndicator(b).d)

InSummary(e) == \E k \in 1..Len(rel_quality.summary) : rel_quality.summary[k].entry = e

\* C9: the summary is the first K = 10 of all profiled business relationships
\* ordered by severity (RED, YELLOW, GREEN) and, within a severity, by
\* indicator = max(blank_ratio, 1 - coverage) descending, null ratios counting
\* as 0 for the order only: every summary entry is a details entry (its null
\* ratios still null), no entry left out is strictly worse than one listed.
C9_SummaryWorstFirst ==
    pc = "rq_done" =>
        LET top == rel_quality.summary
        IN /\ rel_quality.details = details
           /\ Len(top) = (IF Len(details) < 10 THEN Len(details) ELSE 10)
           /\ \A i, j \in 1..Len(top) : i < j => ~StrictlyWorse(top[j].entry, top[i].entry)
           /\ \A i, j \in 1..Len(top) : top[i].entry = top[j].entry => i = j
           /\ \A i \in 1..Len(top) :
                 /\ \E k \in 1..Len(details) : details[k] = top[i].entry
                 /\ top[i].score = ExpectedIndicator(top[i].entry)
           /\ \A k \in 1..Len(details) :
                 ~InSummary(details[k]) =>
                    \A i \in 1..Len(top) : ~StrictlyWorse(details[k], top[i].entry)

\* more than ten relationships were profiled: the summary holds ten, RED ones
\* first, then GREEN ones with null ratios, and a GREEN one is left out
C9_Witness ==
    /\ pc = "rq_done"
    /\ Len(details) > 10
    /\ Len(rel_quality.summary) = 10
    /\ rel_quality.summary[1].entry.severity = "red"
    /\ rel_quality.summary[10].entry.severity = "green"
    /\ rel_quality.summary[10].entry.blank_ratio = NONE
    /\ rel_quality.summary[10].entry.coverage = NONE
    /\ \E k \in 1..Len(details) : ~InSummary(details[k]) /\ details[k].severity = "green"

\* the listing with the relationships at i and i + 1 exchanged
SwapAdjacent(seq, i) ==
    [k \in 1..Len(seq) |-> IF k = i THEN seq[i + 1] ELSE IF k = i + 1 THEN seq[i] ELSE seq[k]]

\* C10: for the same per-relationship results the emitted summary is the same
\* (same entries, same positions) whatever the order in which the relationships
\* were listed, ties on (severity, indicator) included.
C10_SummaryOrderIndependent ==
    pc = "rq_done" =>
        \A i \in 1..(Len(summary) - 1) :
            top_summary_of(SwapAdjacent(summary, i)) = rel_quality.summary

\* ------------------------------------------------------------------
\* C11: type-mismatch lint
\* ------------------------------------------------------------------
\* the declared type of an endpoint column and the class it belongs to
DeclaredOf(table, column) ==
    LET i == CHOOSE j \in 1..Len(md.columns) :
                md.columns[j].table_name = table /\ md.columns[j].column_name = column
    IN md.columns[i].data_type

TypeClass(declared) ==
    CASE declared = S("Int64") -> "number"
      [] declared = S("DateTime") -> "date"
      [] OTHER -> "text"

PreferredType(a, b) ==
    IF a = "date" \/ b = "date" THEN "date"
    ELSE IF a = "number" \/ b = "number" THEN "number"
    ELSE "text"

PlainReference(table, column) == "'" \o table.s \o "'[" \o column.s \o "]"

\* what the orphan query compares for a column of class current brought to target
ExpectedExpr(table, column, current, target) ==
    IF current = target \/ (current = "number" /\ target = "date")
    THEN PlainReference(table, column)
    ELSE IF target = "number"
    THEN "IFERROR(VALUE(" \o PlainReference(table, column) \o "), BLANK())"
    ELSE "VAR __raw = TRIM(" \o PlainReference(table, column)
            \o ") RETURN IF(ISBLANK(__dateValue), BLANK(), __dateValue + IF(ISBLANK(__timeValue), 0, __timeValue))"

MismatchLints(e) ==
    {k \in 1..Len(lints) :
        lints[k].kind = "type_mismatch" /\ lints[k].from = e.from /\ lints[k].to = e.to}

OrphanQueries(e) ==
    {k \in 1..Len(rq_issued) :
        rq_issued[k].kind = "orphan" /\ rq_issued[k].from = e.from /\ rq_issued[k].to = e.to}

KeyOnlySnapshot ==
    /\ md.columns = KeyOnlyColumns
    /\ md.relationships = AnchorRels
    /\ \E i \in 1..Len(md.business_tables) : md.business_tables[i].table_name = S("FactOrders")

\* C12: for a fact table with an active relationship FactOrders[OrderDateKey] ->
\* DimDate[DateKey] and no date-typed column, has_date_axis is true and, when
\* every query sent is answered with a non-null anchor, the returned profile is
\* the one of the via_key strategy.
C12_ViaKeyProfile ==
    KeyOnlySnapshot =>
        /\ (Returned(structure) /\ dict_has(structure.fact_time_axes, S("FactOrders"))) =>
              dict_get(structure.fact_time_axes, S("FactOrders")).has_date_axis
        /\ (/\ ph_result # NONE
            /\ dict_has(ph_result.time_anchors, S("FactOrders"))
            /\ \A i \in 1..Len(QueriesOf(S("FactOrders"))) : Anchored(QueriesOf(S("FactOrders"))[i]))
           => StrategyOf(dict_get(ph_result.time_anchors, S("FactOrders"))) = "via_key"

\* ------------------------------------------------------------------
\* C13: the via_key anchor against the rows of the date dimension
\* ------------------------------------------------------------------
\* the dates the dimension holds
DimensionDates ==
    {warehouse.dim_rows[j].date.n :
        j \in {k \in 1..Len(warehouse.dim_rows) : warehouse.dim_rows[k].date # NONE}}

\* a fact key cell names a dimension key: the same value, or the text that
\* spells the number
SameKey(fact_cell, dim_cell) ==
    \/ fact_cell = dim_cell
    \/ fact_cell.t = "str" /\ dim_cell.t = "int" /\ fact_cell.s = ToString(dim_cell.n)

\* the dates of the dimension rows some fact key that is not blank names
ReachableDates ==
    {warehouse.dim_rows[j].date.n :
        j \in {k \in 1..Len(warehouse.dim_rows) :
                  /\ warehouse.dim_rows[k].date # NONE
                  /\ \E i \in 1..Len(warehouse.fact_keys) :
                        /\ warehouse.fact_keys[i] # NONE
                        /\ SameKey(warehouse.fact_keys[i], warehouse.dim_rows[k].key)}}

WithinDimension(low, anchor) ==
    /\ anchor \in ReachableDates
    /\ \E a \in DimensionDates : a <= anchor
    /\ \E b \in DimensionDates : anchor <= b
    /\ low <= anchor

\* the profiles the via_key strategy produced: of the full documentor, of the lite one
ViaKeyProfiles ==
    IF ph_result = NONE THEN {}
    ELSE {ph_result.time_anchors[i].value :
             i \in {k \in 1..Len(ph_result.time_anchors) :
                       StrategyOf(ph_result.time_anchors[k].value) = "via_key"}}

LiteViaKeyPayloads ==
    {lf_out[i].value.time :
        i \in {k \in 1..Len(lf_out) : lf_out[k].value.time.source = S("via_key")}}

\* C13: whenever the via_key strategy produces the anchor of a fact table, the
\* anchor is a date of a dimension row that a non-blank fact key names, it lies
\* between the least and the greatest date of the dimension's date column, and
\* the reported min is not after the anchor.
C13_AnchorWithinDimension ==
    /\ \A profile \in ViaKeyProfiles :
          /\ profile.anchor.t = "int"
          /\ profile.min.t = "int"
          /\ WithinDimension(profile.min.n, profile.anchor.n)
    /\ \A payload \in LiteViaKeyPayloads :
          /\ payload.anchor.t = "iso"
          /\ payload.min.t = "iso"
          /\ WithinDimension(payload.min.day, payload.anchor.day)

\* both documentors anchor a fact by its key: a text key that spells a
\* dimension key for the full one, a number key with an earlier min for the lite
C13_Witness ==
    \/ /\ md.columns = KeyOnlyColumns
       /\ \E profile \in ViaKeyProfiles : profile.min.n < profile.anchor.n
    \/ /\ md.columns = NumberKeyColumns
       /\ \E payload \in LiteViaKeyPayloads : payload.min.day < payload.anchor.day

\* ------------------------------------------------------------------
\* C14: has_date_axis and the relationship-based time key
\* ------------------------------------------------------------------
\* a listed business relationship leads from the fact to a date dimension
\* (a table named *dimdate* or *calendar*) and names the fact's column
HasTimeRelationship(fact) ==
    \E i \in 1..Len(md.relationships) :
       LET r == md.relationships[i]
       IN /\ is_business_relationship(r) = "true"
          /\ r.from_table = fact
          /\ Truthy(r.to_table)
          /\ contains(lower(r.to_table.s), "dimdate") \/ contains(lower(r.to_table.s), "calendar")
          /\ Truthy(r.from_column)

KeyFields(axis) == {axis.default_time_key, axis.date_dimension, axis.date_dimension_key}

\* C14: for every fact table of the structure analysis has_date_axis is true
\* exactly when a relationship-based time key was resolved, that is exactly when
\* default_time_key, date_dimension and date_dimension_key are all non-null;
\* when it is false all three are null; the map has one entry per fact table.
C14_DateAxisIffTimeKey ==
    Returned(structure) =>
        LET axes == structure.fact_time_axes
            facts == tables_of_type(structure.table_types, "fact")
        IN /\ dict_keys(axes) = facts
           /\ \A i, j \in 1..Len(axes) : axes[i].key = axes[j].key => i = j
           /\ \A i \in 1..Len(axes) :
                 LET axis == axes[i].value
                 IN /\ axis.has_date_axis \in BOOLEAN
                    /\ axis.has_date_axis <=> HasTimeRelationship(axes[i].key)
                    /\ axis.has_date_axis <=> NONE \notin KeyFields(axis)
                    /\ ~axis.has_date_axis => KeyFields(axis) = {NONE}

\* a fact with a time key beside a fact that has a date column but no time key
C14_Witness ==
    /\ Returned(structure)
    /\ \E i, j \in 1..Len(structure.fact_time_axes) :
          /\ structure.fact_time_axes[i].value.has_date_axis
          /\ structure.fact_time_axes[i].value.date_dimension = S("DimDate")
          /\ ~structure.fact_time_axes[j].value.has_date_axis

\* ------------------------------------------------------------------
\* C15: the star schema
\* ------------------------------------------------------------------
IsDimension(types, table) == dict_has(types, table) /\ dict_get(types, table) = S("dimension")

\* the business relationships of the snapshot that leave the fact, in the
\* order of the listing: for the full documentor, for the lite one
RelationshipsFrom(fact) ==
    SelectSeq(md.relationships,
              LAMBDA r : is_business_relationship(r) = "true" /\ r.from_table = fact)

LiteRelationshipsFrom(fact) ==
    SelectSeq(md.relationships,
              LAMBDA r : lite_active_business_rel(r) = "true" /\ r.from_table = fact)

\* the recorded edges are the relationships to a dimension, one for one
EdgesAre(dimensions, relationships, types) ==
    LET expected == SelectSeq(relationships, LAMBDA r : IsDimension(types, r.to_table))
    IN /\ Len(dimensions) = Len(expected)
       /\ \A k \in 1..Len(expected) :
             /\ dimensions[k].dimension_table = expected[k].to_table
             /\ dimensions[k].join_key = pystr(expected[k].from_column) \o " -> "
                                            \o pystr(expected[k].to_column)

StarIsExact(star, types, full) ==
    /\ dict_keys(star) = tables_of_type(types, "fact")
    /\ \A i, j \in 1..Len(star) : star[i].key = star[j].key => i = j
    /\ \A i \in 1..Len(star) :
          /\ EdgesAre(star[i].value.dimensions,
                      IF full THEN RelationshipsFrom(star[i].key)
                      ELSE LiteRelationshipsFrom(star[i].key), types)
          /\ \A k \in 1..Len(star[i].value.dimensions) :
                ~dict_has(star, star[i].value.dimensions[k].dimension_table)

\* C15: the star-schema map has exactly one entry per table classified fact;
\* the dimension edges of a fact are exactly the business relationships from
\* that fact to a table classified dimension; relationships to any other
\* target are left out without an error; no table is both a key of the map and
\* the target of an edge.
C15_StarSchema ==
    /\ Returned(structure) =>
          StarIsExact(structure.star_schema, structure.table_types, TRUE)
    /\ Returned(lite_st) =>
          StarIsExact(lite_st.star, lite_st.table_types, FALSE)

\* a fact with a recorded edge and a business relationship to a table that
\* is not a dimension
OmitsAnEdge(star, types, full) ==
    \E i \in 1..Len(star) :
       LET leaving == IF full THEN RelationshipsFrom(star[i].key)
                      ELSE LiteRelationshipsFrom(star[i].key)
       IN /\ Len(star[i].value.dimensions) >= 2
          /\ \E k \in 1..Len(leaving) : ~IsDimension(types, leaving[k].to_table)

C15_Witness ==
    \/ Returned(structure) /\ OmitsAnEdge(structure.star_schema, structure.table_types, TRUE)
    \/ Returned(lite_st) /\ OmitsAnEdge(lite_st.star, lite_st.table_types, FALSE)

\* ------------------------------------------------------------------
\* C16: metadata categories whose fetch fails
\* ------------------------------------------------------------------
\* the categories the documentor at hand fetches: six for the full one, four
\* for the lite one
FetchedCategories ==
    IF "hierarchies" \in DOMAIN md
    THEN {"tables", "columns", "measures", "relationships", "hierarchies", "roles"}
    ELSE {"tables", "columns", "measures", "relationships"}

\* the warnings that name a category
WarningsNaming(k) ==
    {i \in 1..Len(md.errors) : startswith(md.errors[i], k \o " not available")}

BusinessNames == {md.business_tables[i].table_name : i \in 1..Len(md.business_tables)}

\* C16: whatever subset of the metadata categories fails to be fetched, the
\* extraction returns: a failed category is an empty list and exactly one
\* warning names it, a category that was fetched keeps the backend's records
\* and has no warning, and the structure analysis that follows classifies
\* every business table of what is available.
C16_PartialFetch ==
    fetched # NONE =>
        /\ pc # "extract" /\ pc # "lite_extract"
        /\ \A k \in FetchedCategories :
              IF k \in fetched.failed
              THEN md[k] = <<>> /\ Cardinality(WarningsNaming(k)) = 1
              ELSE md[k] = fetched.backend[k] /\ WarningsNaming(k) = {}
        /\ Len(md.errors) = Cardinality(fetched.failed \cap FetchedCategories)
        /\ Returned(structure) => \A name \in BusinessNames : dict_has(structure.table_types, name)
        /\ structure = Raised => S("") \in BusinessNames
        /\ Returned(lite_st) => \A name \in BusinessNames : dict_has(lite_st.table_types, name)
        /\ lite_st # Raised

\* columns, relationships and one more category failed and the tables that
\* were fetched are classified
C16_Witness ==
    /\ fetched # NONE
    /\ {"columns", "relationships"} \subseteq fetched.failed
    /\ Cardinality(fetched.failed) = 3
    /\ \/ Returned(structure) /\ Len(structure.table_types) >= 3
       \/ Returned(lite_st) /\ Len(lite_st.table_types) >= 3

\* ------------------------------------------------------------------
\* C17: invalid input
\* ------------------------------------------------------------------
\* the queries the time-anchor profiler sent about a table
ProfilerQueriesAbout(table) ==
    {i \in 1..Len(issued) : issued[i].table = table /\ issued[i].strategy # "row_count"}

\* C17: the business predicate raises on a relationship record that is None;
\* the structure analysis never returns a time axis for a fact table whose
\* name is empty; the time-anchor profiler called for such a table sends no
\* query about it and returns no profile for it.
C17_RejectsInvalidInput ==
    /\ (rel_in = NONE /\ biz_main # "unset") => biz_main = "raised"
    /\ (Returned(structure) /\ "fact_time_axes" \in DOMAIN structure) =>
          ~dict_has(structure.fact_time_axes, S(""))
    /\ ProfilerQueriesAbout(S("")) = {}
    /\ ph_result # NONE => ~dict_has(ph_result.time_anchors, S(""))

\* ------------------------------------------------------------------
\* C18: the count of filtered auto-date relationships of interleaved passes
\* ------------------------------------------------------------------
\* the relationships of a listing with an auto-generated calendar endpoint
AutoEndpointCount(relationships) ==
    Cardinality({i \in 1..Len(relationships) :
                    \E name \in {relationships[i].from_table.s, relationships[i].to_table.s} :
                       \E prefix \in {"localdatetable_", "datetabletemplate_"} :
                          startswith(lower(name), prefix)})

\* C18: when two relationship-quality passes over different snapshots run
\* interleaved on the same documentor, each returns the number of relationships
\* of its own snapshot that have an auto-generated calendar endpoint.
C18_OwnCountReturned ==
    \A p \in DOMAIN passes :
       passes[p].at = "done" =>
          passes[p].returned = N(AutoEndpointCount(passes[p].relationships))

\* ------------------------------------------------------------------
\* C19: the three strategies of the lite profiler
\* ------------------------------------------------------------------
\* the positions in the log of the queries of a strategy about a fact
LiteQueriesOf(strategy, fact) ==
    {i \in 1..Len(lf_issued) :
        lf_issued[i].strategy = strategy /\ lf_issued[i].table = fact}

\* the strategy's query about the fact came back with a non-null anchor
GaveAnchor(strategy, fact) ==
    \E i \in LiteQueriesOf(strategy, fact) :
       lf_issued[i].answer = "row" /\ ~IsNa(lf_issued[i].anchor)

\* C19: for each fact table the via-key query comes first; the direct query
\* is issued only if via-key gave no non-null anchor and the fallback query
\* only if both gave none; source is via_key, direct or fallback naming the
\* strategy that supplied the anchor, and source is non-null only when the
\* anchor is non-null.
C19_SourceNamesStrategy ==
    \A f \in 1..Len(lf_out) :
       LET fact == lf_out[f].key
           time == lf_out[f].value.time
       IN /\ \A i \in LiteQueriesOf("direct", fact) :
                /\ ~GaveAnchor("via_key", fact)
                /\ \A j \in LiteQueriesOf("via_key", fact) : j < i
          /\ \A i \in LiteQueriesOf("fallback", fact) :
                /\ ~GaveAnchor("via_key", fact)
                /\ ~GaveAnchor("direct", fact)
                /\ \A j \in LiteQueriesOf("via_key", fact) \cup LiteQueriesOf("direct", fact) :
                      j < i
          /\ time.source \in {NONE, S("via_key"), S("direct"), S("fallback")}
          /\ time.source # NONE =>
                /\ LiteQueriesOf(time.source.s, fact) # {}
                /\ lf_issued[CHOOSE i \in LiteQueriesOf(time.source.s, fact) : TRUE].answer = "row"
          /\ time.source # NONE => time.anchor # NONE

\* the part of C19 about the order of the queries and the naming of the
\* strategy, without the last sentence
LiteOrderAndNaming ==
    \A f \in 1..Len(lf_out) :
       LET fact == lf_out[f].key
           time == lf_out[f].value.time
       IN /\ \A i \in LiteQueriesOf("direct", fact) : ~GaveAnchor("via_key", fact)
          /\ \A i \in LiteQueriesOf("fallback", fact) :
                ~GaveAnchor("via_key", fact) /\ ~GaveAnchor("direct", fact)
          /\ time.source \in {S("via_key"), S("direct")} =>
                GaveAnchor(time.source.s, fact) /\ time.anchor # NONE

\* ------------------------------------------------------------------
\* C20: rule 1 of the classification
\* ------------------------------------------------------------------
\* the name follows the fact-prefix convention
FactPrefixed(name) ==
    \E prefix \in {"fact", "vwpcse_fact"} : startswith(lower(name.s), prefix)

\* the business relationships of the snapshot that leave / reach the table
OutgoingBusiness(name) ==
    {i \in 1..Len(md.relationships) :
        /\ md.relationships[i].from_table = name
        /\ is_business_relationship(md.relationships[i]) = "true"}
IncomingBusiness(name) ==
    {i \in 1..Len(md.relationships) :
        /\ md.relationships[i].to_table = name
        /\ is_business_relationship(md.relationships[i]) = "true"}

ColumnsOfTable(name) == {i \in 1..Len(md.columns) : md.columns[i].table_name = name}

RuleOne(name) ==
    IF /\ Cardinality(ColumnsOfTable(name)) <= 3
       /\ Cardinality(OutgoingBusiness(name)) >= 2
       /\ Cardinality(IncomingBusiness(name)) >= 2
    THEN S("bridge")
    ELSE S("fact")

\* C20: a table whose name starts with fact or vwpcse_fact (in any case) is
\* classified bridge when it has at most 3 columns and at least 2 outgoing and
\* at least 2 incoming business relationships, and fact in every other case,
\* whatever its column types, its measures or a date-like name.
C20_FactPrefixRule ==
    /\ Returned(structure) =>
          \A k \in 1..Len(structure.table_types) :
             FactPrefixed(structure.table_types[k].key) =>
                structure.table_types[k].value = RuleOne(structure.table_types[k].key)
    /\ (reclass # NONE /\ FactPrefixed(reclass.table_name)) =>
          reclass.type = RuleOne(reclass.table_name)

\* FactOrders with 3 outgoing active relationships was classified fact
C20_Witness ==
    /\ reclass # NONE
    /\ reclass.table_name = S("FactOrders")
    /\ Cardinality(OutgoingBusiness(S("FactOrders"))) = 3
    /\ reclass.type = S("fact")
    /\ dict_get(structure.table_types, S("FactOrders")) = S("fact")

\* a date-like fact-prefixed name with date columns and no measure is fact, and
\* a fact-prefixed link table between two and two is bridge
FactPrefixCases ==
    /\ reclass # NONE
    /\ \/ /\ reclass.table_name = S("FACTDate")
          /\ reclass.type = S("fact")
          /\ md.measures = <<>>
          /\ \E i \in ColumnsOfTable(S("FACTDate")) : md.columns[i].data_type = S("DateTime")
       \/ /\ reclass.table_name = S("VwPcse_FactCalendarLink")
          /\ reclass.type = S("bridge")

\* ------------------------------------------------------------------
\* C21, C22, C29: rules 2 and 3 of the classification
\* ------------------------------------------------------------------
\* every (table, classification) the analysis or a later call produced
Classified ==
    (IF Returned(structure)
     THEN {<<structure.table_types[k].key, structure.table_types[k].value>> :
              k \in 1..Len(structure.table_types)}
     ELSE {})
       \cup (IF reclass # NONE THEN {<<reclass.table_name, reclass.type>>} ELSE {})

DateNamed(name) == \E k \in {"dimdate", "date", "calendar"} : contains(lower(name.s), k)

DateTypedColumns(name) ==
    {i \in ColumnsOfTable(name) : contains(lower(md.columns[i].data_type.s), "date")}

MeasuresOn(name) == {i \in 1..Len(md.measures) : md.measures[i].table_name = name}

RuleTwoApplies(name) ==
    /\ DateNamed(name) \/ Cardinality(DateTypedColumns(name)) >= 2
    /\ Cardinality(MeasuresOn(name)) <= 1

TextColumns(name) ==
    {i \in ColumnsOfTable(name) :
        \E flag \in {"text", "string"} : contains(lower(md.columns[i].data_type.s), flag)}
NumericColumns(name) ==
    {i \in ColumnsOfTable(name) :
        \E flag \in ClassifierNumericFlags : contains(lower(md.columns[i].data_type.s), flag)}

RuleThree(name) ==
    LET outgoing == Cardinality(OutgoingBusiness(name))
        incoming == Cardinality(IncomingBusiness(name))
    IN IF outgoing >= 2 THEN S("fact")
       ELSE IF incoming > outgoing
               \/ Cardinality(TextColumns(name)) > Cardinality(NumericColumns(name))
       THEN S("dimension")
       ELSE IF Cardinality(ColumnsOfTable(name)) <= 3 /\ outgoing >= 2 THEN S("bridge")
       ELSE S("other")

\* C21: a table without the fact prefix is classified dimension whenever its
\* name contains a calendar/date keyword or it has at least 2 date-typed
\* columns, and at most one measure is defined on it, whatever its relationship
\* counts; with 2 or more measures rule 3 decides.
C21_DateDimensionRule ==
    \A c \in Classified :
       ~FactPrefixed(c[1]) =>
          /\ RuleTwoApplies(c[1]) => c[2] = S("dimension")
          /\ Cardinality(MeasuresOn(c[1])) >= 2 => c[2] = RuleThree(c[1])

\* Orders with three date-typed columns, one measure and three outgoing
\* business relationships was classified dimension
C21_Witness ==
    /\ reclass # NONE
    /\ reclass.table_name = S("Orders")
    /\ Cardinality(DateTypedColumns(S("Orders"))) = 3
    /\ Cardinality(MeasuresOn(S("Orders"))) = 1
    /\ Cardinality(OutgoingBusiness(S("Orders"))) = 3
    /\ reclass.type = S("dimension")

\* DimDate with two measures and two outgoing business relationships is fact
DateNamedWithMeasures ==
    /\ reclass # NONE
    /\ reclass.table_name = S("DimDate")
    /\ Cardinality(MeasuresOn(S("DimDate"))) = 2
    /\ Cardinality(OutgoingBusiness(S("DimDate"))) = 2
    /\ reclass.type = S("fact")

\* C22: a table that matches neither rule 1 nor rule 2 is fact with 2 or more
\* outgoing business relationships, else dimension with incoming > outgoing or
\* more text than numeric columns, else bridge with at most 3 columns and
\* outgoing >= 2, else other; the counts take only active relationships without
\* an auto-generated calendar endpoint.
C22_StructuralRule ==
    \A c \in Classified :
       (~FactPrefixed(c[1]) /\ ~RuleTwoApplies(c[1])) => c[2] = RuleThree(c[1])

\* Orders with one outgoing and one incoming business relationship, an
\* inactive and an auto-date relationship besides, and number columns is other
C22_Witness ==
    /\ reclass # NONE
    /\ reclass.table_name = S("Orders")
    /\ Cardinality(OutgoingBusiness(S("Orders"))) = 1
    /\ Cardinality(IncomingBusiness(S("Orders"))) = 1
    /\ \E i \in 1..Len(md.relationships) :
          /\ md.relationships[i].from_table = S("Orders")
          /\ is_business_relationship(md.relationships[i]) = "false"
    /\ NumericColumns(S("Orders")) # {}
    /\ reclass.type = S("other")

\* C29: only a table whose name has the fact prefix is classified bridge; a
\* table that reaches the structural rules is fact, dimension or other.
C29_BridgeOnlyByName ==
    \A c \in Classified :
       /\ c[2] = S("bridge") => FactPrefixed(c[1])
       /\ (~FactPrefixed(c[1]) /\ ~RuleTwoApplies(c[1])) =>
             c[2] \in {S("fact"), S("dimension"), S("other")}

\* Orders with two columns, two outgoing and two incoming business
\* relationships is fact, not bridge
C29_Witness ==
    /\ reclass # NONE
    /\ reclass.table_name = S("Orders")
    /\ ~RuleTwoApplies(S("Orders"))
    /\ Cardinality(ColumnsOfTable(S("Orders"))) = 2
    /\ Cardinality(OutgoingBusiness(S("Orders"))) = 2
    /\ Cardinality(IncomingBusiness(S("Orders"))) = 2
    /\ reclass.type = S("fact")

\* ------------------------------------------------------------------
\* C23: the time key of a fact with several date-like targets
\* ------------------------------------------------------------------
\* the business relationships from the fact with a non-empty from_column whose
\* target name contains one of the keywords
KeyedRelsTo(fact, keywords) ==
    {i \in 1..Len(md.relationships) :
        /\ is_business_relationship(md.relationships[i]) = "true"
        /\ md.relationships[i].from_table = fact
        /\ Truthy(md.relationships[i].from_column)
        /\ \E k \in keywords : contains(lower(md.relationships[i].to_table.s), k)}

\* the resolver's answer is the relationship at position i
AnswerIs(answer, i) ==
    /\ answer.default_time_key = md.relationships[i].from_column
    /\ answer.date_dimension = md.relationships[i].to_table
    /\ answer.date_dimension_key = md.relationships[i].to_column

\* the answer comes from a relationship to a DimDate-style table when there is
\* one, else from one to a calendar/date table when there is one, and from no
\* other relationship
PrefersDimDate(answer, fact) ==
    LET exact == KeyedRelsTo(fact, {"dimdate"})
        loose == KeyedRelsTo(fact, {"dimdate", "calendar", "date"})
    IN /\ exact # {} => \E i \in exact : AnswerIs(answer, i)
       /\ loose # {} => \E i \in loose : AnswerIs(answer, i)
       /\ loose = {} => answer.default_time_key = NONE

\* the lite documentor prefers the DimDate-style target in every order
LitePrefersDimDate ==
    Returned(lite_st) => PrefersDimDate(dict_get(lite_st.fact_time, S("FactOrders")), S("FactOrders"))

\* C23: when a fact table has outgoing business relationships to several
\* date-like tables, the resolver returns the (fact key, dimension table,
\* dimension key) of a relationship whose target matches the DimDate-style
\* keyword in preference to one that only matches a calendar/date keyword,
\* whatever the order of the relationships; only business relationships from
\* the fact with a non-empty from_column are considered.
C23_PrefersDimDate ==
    /\ Returned(structure) =>
          PrefersDimDate(dict_get(structure.fact_time_axes, S("FactOrders")), S("FactOrders"))
    /\ LitePrefersDimDate

\* ------------------------------------------------------------------
\* C24: the display date column of a date dimension
\* ------------------------------------------------------------------
ColumnNamesOf(dim) == {md.columns[i].column_name : i \in ColumnsOfTable(dim)}

\* the first of CalendarDate, Date, DateValue that is a column of the
\* dimension, else its first date-typed column in metadata order, else none
ExpectedDateColumn(dim) ==
    LET typed_at == DateTypedColumns(dim)
    IN IF S("CalendarDate") \in ColumnNamesOf(dim) THEN S("CalendarDate")
       ELSE IF S("Date") \in ColumnNamesOf(dim) THEN S("Date")
       ELSE IF S("DateValue") \in ColumnNamesOf(dim) THEN S("DateValue")
       ELSE IF typed_at # {}
       THEN md.columns[CHOOSE i \in typed_at : \A j \in typed_at : i <= j].column_name
       ELSE NONE

\* the date column the full documentor chose for the date dimension of a
\* via_key profile
MainChoiceIsExpected ==
    \A profile \in ViaKeyProfiles :
       profile.date_axis_column = ExpectedDateColumn(profile.date_dimension)

\* the date column of the date axis of the lite documentor
LiteChoiceIsExpected ==
    (Returned(lite_st) /\ lite_st.date_axis.table # NONE) =>
        lite_st.date_axis.date_column = ExpectedDateColumn(lite_st.date_axis.table)

\* a chosen column is a column of the dimension
ChoiceBelongsToDimension ==
    /\ \A profile \in ViaKeyProfiles :
          profile.date_axis_column \in ColumnNamesOf(profile.date_dimension)
    /\ (Returned(lite_st) /\ lite_st.date_axis.date_column # NONE) =>
          lite_st.date_axis.date_column \in ColumnNamesOf(lite_st.date_axis.table)

\* C24: the display date column chosen for a date dimension is the first of
\* CalendarDate, Date, DateValue that is a column of that dimension, else the
\* first date-typed column of the dimension in metadata order, else none, and
\* it always belongs to the dimension.
C24_DisplayDateColumn ==
    /\ MainChoiceIsExpected
    /\ LiteChoiceIsExpected
    /\ ChoiceBelongsToDimension

\* ------------------------------------------------------------------
\* C25: the order of the direct candidates
\* ------------------------------------------------------------------
\* the date-like columns of a table: date-typed, or named after date or time
DateLikeColumns(table) ==
    {md.columns[i].column_name :
        i \in {k \in ColumnsOfTable(table) :
                  \/ dtype_is_date(md.columns[k].data_type)
                  \/ contains(lower(md.columns[k].column_name.s), "date")
                  \/ contains(lower(md.columns[k].column_name.s), "time")}}

DirectQueries == {i \in 1..Len(issued) : issued[i].strategy = "direct"}

\* C25: in the direct strategy a date-like column of the fact table is
\* profiled only after every date-like column of higher name relevance
\* (submitted > sent > closed > created > resolved > calendar > date, less a
\* penalty for time without date), whether the columns are date-typed or only
\* date-named.
C25_DirectByRelevance ==
    \A j \in DirectQueries :
       \A column \in DateLikeColumns(issued[j].table) :
          score(column) > score(issued[j].column) =>
             \E i \in DirectQueries :
                i < j /\ issued[i].table = issued[j].table /\ issued[i].column = column

\* the same among the date-typed columns only
TypedByRelevance ==
    \A j \in DirectQueries :
       \A i \in DirectQueries :
          (/\ i < j
           /\ issued[i].table = issued[j].table
           /\ issued[i].column \in typed_date_names(columns_of(issued[i].table, md.columns))
           /\ issued[j].column \in typed_date_names(columns_of(issued[i].table, md.columns)))
             => score(issued[i].column) >= score(issued[j].column)

\* ------------------------------------------------------------------
\* C26: the coercion expression per pair of types
\* ------------------------------------------------------------------
\* the expression converts to text, to number or to date
IsConversion(expr, table, column) ==
    \/ expr = "FORMAT(" \o PlainReference(table, column) \o ", \"0\")"
    \/ expr = "IFERROR(VALUE(" \o PlainReference(table, column) \o "), BLANK())"
    \/ expr = "VAR __raw = TRIM(" \o PlainReference(table, column)
                 \o ") RETURN IF(ISBLANK(__dateValue), BLANK(), __dateValue + IF(ISBLANK(__timeValue), 0, __timeValue))"

\* the bare reference for equal types, a conversion otherwise
CoercedAsClaimed(expr, table, column, current, target) ==
    IF current = target THEN expr = PlainReference(table, column)
    ELSE IsConversion(expr, table, column)

\* C26: for every pair (current type, target type) the coercion expression
\* is the bare column reference when the two types are equal and otherwise an
\* expression that converts the column to the target type, so that the two
\* sides of the orphan comparison have the same normalized type.
C26_CoercionByType ==
    \A i \in 1..Len(details) :
        LET e == details[i]
            r == CoercionRels[i]
            tf == TypeClass(DeclaredOf(r.from_table, r.from_column))
            tt == TypeClass(DeclaredOf(r.to_table, r.to_column))
            target == PreferredType(tf, tt)
        IN \A k \in OrphanQueries(e) :
              /\ CoercedAsClaimed(rq_issued[k].fk_expr, r.from_table, r.from_column, tf, target)
              /\ CoercedAsClaimed(rq_issued[k].pk_expr, r.to_table, r.to_column, tt, target)

\* the same for the pairs other than number against date
CoercedUnlessNumberToDate ==
    \A i \in 1..Len(details) :
        LET e == details[i]
            r == CoercionRels[i]
            tf == TypeClass(DeclaredOf(r.from_table, r.from_column))
            tt == TypeClass(DeclaredOf(r.to_table, r.to_column))
            target == PreferredType(tf, tt)
        IN \A k \in OrphanQueries(e) :
              /\ ~(tf = "number" /\ target = "date") =>
                    CoercedAsClaimed(rq_issued[k].fk_expr, r.from_table, r.from_column, tf, target)
              /\ ~(tt = "number" /\ target = "date") =>
                    CoercedAsClaimed(rq_issued[k].pk_expr, r.to_table, r.to_column, tt, target)

\* ------------------------------------------------------------------
\* C27: the two ratios of a quality record
\* ------------------------------------------------------------------
\* the rows query of the relationship of a record
RowsQueries(e) ==
    {k \in 1..Len(rq_issued) :
        rq_issued[k].kind = "rows" /\ rq_issued[k].from = e.from /\ rq_issued[k].to = e.to}

\* a count is available and not zero
Nonzero(count) == count # NONE /\ count.n # 0

\* severity as the one ratio that is there decides it
CoverageAlone(coverage) ==
    IF coverage = NONE THEN "green"
    ELSE IF RatLess(coverage, Rat(95, 100)) THEN "red"
    ELSE IF RatLess(coverage, Rat(98, 100)) THEN "yellow"
    ELSE "green"
BlankRatioAlone(blank_ratio) ==
    IF blank_ratio = NONE THEN "green"
    ELSE IF RatLess(Rat(5, 100), blank_ratio) THEN "red"
    ELSE IF RatLess(Rat(2, 100), blank_ratio) THEN "yellow"
    ELSE "green"

\* C27: blank_ratio is blank_fk / total_rows exactly when blank_fk is
\* available and total_rows is available and nonzero, coverage is
\* 1 - orphan_fk / distinct_fk exactly when orphan_fk is available and
\* distinct_fk is available and nonzero, and null in every other case; a null
\* ratio does not make the severity worse, and a record with two null ratios
\* has severity green and ranking score 0.
C27_RatiosOrNull ==
    \A i \in 1..Len(details) :
       LET e == details[i]
       IN /\ Cardinality(RowsQueries(e)) = 1
          /\ \A k \in RowsQueries(e) :
                /\ e.blank_ratio =
                      IF e.blank_fk # NONE /\ Nonzero(rq_issued[k].total_rows)
                      THEN Rat(e.blank_fk.n, rq_issued[k].total_rows.n) ELSE NONE
                /\ e.coverage =
                      IF e.orphan_fk # NONE /\ Nonzero(rq_issued[k].distinct_fk)
                      THEN RatSub(One, Rat(e.orphan_fk.n, rq_issued[k].distinct_fk.n)) ELSE NONE
          /\ e.blank_ratio = NONE => e.severity = CoverageAlone(e.coverage)
          /\ e.coverage = NONE => e.severity = BlankRatioAlone(e.blank_ratio)
          /\ (e.blank_ratio = NONE /\ e.coverage = NONE) =>
                /\ e.severity = "green"
                /\ summary[i].entry = e
                /\ summary[i].score = Zero

\* the pass returned with a record whose denominators were both zero and one
\* whose queries both failed: no ratio, green
C27_Witness ==
    /\ pc = "rq_done"
    /\ Len(details) = 2
    /\ \E k \in RowsQueries(details[1]) :
          /\ rq_issued[k].total_rows = N(0)
          /\ rq_issued[k].distinct_fk = N(0)
          /\ rq_issued[k + 1].answer = "row"
    /\ details[1].blank_fk = N(0)
    /\ details[1].orphan_fk # NONE
    /\ details[1].blank_ratio = NONE /\ details[1].coverage = NONE
    /\ details[1].severity = "green"
    /\ \E k \in RowsQueries(details[2]) :
          rq_issued[k].answer = "raise" /\ rq_issued[k + 1].answer = "raise"
    /\ details[2].blank_ratio = NONE /\ details[2].coverage = NONE
    /\ details[2].severity = "green"

\* ------------------------------------------------------------------
\* The kind of one declared type string, component by component
\* ------------------------------------------------------------------
\* data_type values a metadata row can carry: the engine's own names, the
\* names other sources use for the same types, a missing value, an empty one
TypeStrings ==
    {S("Int64"), S("Whole Number"), S("Decimal"), S("Double"), S("Float"), S("Currency"),
     S("String"), S("Text"), S("Boolean"), S("Binary"),
     S("DateTime"), S("Date"), S("Time"), S("Timestamp"), S(""), NONE}

\* _looks_like_date_dimension: 'date' in t, t the lowered data_type
is_date_like(data_type) == contains(lower(StrOr(data_type)), "date")

\* _select_dim_date_column: the column is skipped
\* if 'date' not in data_type and 'time' not in data_type
is_date_or_time(data_type) ==
    LET lowered == lower(StrOr(data_type))
    IN contains(lowered, "date") \/ contains(lowered, "time")

InitTypes ==
    /\ pc = "kinds"
    /\ md = EmptyMd
    /\ warehouse = NONE
    /\ fetched = NONE
    /\ passes = <<>>
    /\ \E data_type \in TypeStrings :
          kinds = [data_type |-> data_type, normalized |-> NONE, classifier |-> NONE,
                   date_like |-> NONE, date_axis |-> NONE, profiler |-> NONE]
    /\ BusinessIdle
    /\ QualityIdle
    /\ AnalysisIdle
    /\ HealthIdle
    /\ LiteIdle
    /\ FactsIdle

TypesFrame ==
    UNCHANGED <<pc, md, warehouse, fetched, passes, businessVars, factsVars, liteVars,
                qualityVars, analysisVars, healthVars>>

\* _coerce_type(data_type)
CoerceType ==
    /\ pc = "kinds"
    /\ kinds.normalized = NONE
    /\ kinds' = [kinds EXCEPT !.normalized = S(coerce_type(kinds.data_type))]
    /\ TypesFrame

\* _classify_table: whether the column adds to numeric_cols, to text_cols
ClassifierCounts ==
    /\ pc = "kinds"
    /\ kinds.classifier = NONE
    /\ kinds' = [kinds EXCEPT !.classifier =
                    [numeric |-> has_flag(kinds.data_type, ClassifierNumericFlags),
                     text |-> has_flag(kinds.data_type, ClassifierTextFlags)]]
    /\ TypesFrame

\* _looks_like_date_dimension: whether the column adds to has_many_date_like
DateDimensionCounts ==
    /\ pc = "kinds"
    /\ kinds.date_like = NONE
    /\ kinds' = [kinds EXCEPT !.date_like = B(is_date_like(kinds.data_type))]
    /\ TypesFrame

\* _select_dim_date_column: whether the column is a candidate date axis
DateAxisCandidate ==
    /\ pc = "kinds"
    /\ kinds.date_axis = NONE
    /\ kinds' = [kinds EXCEPT !.date_axis = B(is_date_or_time(kinds.data_type))]
    /\ TypesFrame

\* _profile_time_anchor: _dtype_is_date(data_type)
ProfilerDateTyped ==
    /\ pc = "kinds"
    /\ kinds.profiler = NONE
    /\ kinds' = [kinds EXCEPT !.profiler = B(dtype_is_date(kinds.data_type))]
    /\ TypesFrame

NextTypes ==
    \/ CoerceType
    \/ ClassifierCounts
    \/ DateDimensionCounts
    \/ DateAxisCandidate
    \/ ProfilerDateTyped

SpecTypes == InitTypes /\ [][NextTypes]_vars

\* ------------------------------------------------------------------
\* Claim C28
\* ------------------------------------------------------------------
Normalized(kind) == kinds.normalized = S(kind)

\* the metadata row names a type: data_type is a string and not the empty one
Declared == IsStr(kinds.data_type) /\ kinds.data_type # S("")

ClassifierAgrees ==
    kinds.classifier # NONE =>
        /\ kinds.classifier.numeric <=> Normalized("number")
        /\ kinds.classifier.text <=> Normalized("text")

DateChecksAgree ==
    /\ kinds.profiler # NONE => (kinds.profiler = B(TRUE) <=> Normalized("date"))
    /\ kinds.date_like # NONE => (kinds.date_like = B(TRUE) <=> Normalized("date"))
    /\ kinds.date_axis # NONE => (kinds.date_axis = B(TRUE) <=> Normalized("date"))

\* C28: for every declared type string, the classifier counts the column as
\* numeric exactly when the three-way normalization gives number and as text
\* exactly when it gives text, and the time-anchor profiler and the
\* date-dimension checks treat it as date-typed exactly when the normalization
\* gives date.
C28_OneNormalization ==
    (kinds # NONE /\ kinds.normalized # NONE /\ Declared)
        => (ClassifierAgrees /\ DateChecksAgree)

\* what the components do share: on the engine's three everyday type names
\* every component gives the kind the normalization gives
EverydayTypes == {S("Int64"), S("String"), S("DateTime")}
AgreeOnEverydayTypes ==
    (kinds # NONE /\ kinds.normalized # NONE /\ kinds.data_type \in EverydayTypes)
        => (ClassifierAgrees /\ DateChecksAgree)

\* ------------------------------------------------------------------
\* Claim C30
\* ------------------------------------------------------------------
\* the candidate columns a run of _profile_time_anchor can arrive at for the
\* fact table at hand, the metadata being what it is
PossibleCandidates ==
    LET table_columns == columns_of(fact_tables_of(structure)[ph_i], md.columns)
    IN {candidate_columns(table_columns, typed_date_cols) :
           typed_date_cols \in TypedOrders(table_columns)}

\* C30: for a fixed metadata snapshot the sequence of direct candidate columns
\* (at most 8 are tried) and the up-to-three columns coalesce uses are a
\* function of the metadata alone: the candidates of this run are the
\* candidates of every run, columns of equal relevance score included.
C30_CandidatesFromMetadata ==
    ta_cols # NONE =>
        \A cols \in PossibleCandidates :
            /\ direct_tried(cols) = direct_tried(ta_cols)
            /\ coalesce_columns(cols) = coalesce_columns(ta_cols)

\* what the metadata does fix: which columns are candidates, the order of the
\* name candidates, the cap, and the order of two typed columns of different
\* score
CandidatesUpToTies ==
    ta_cols # NONE =>
        /\ Len(direct_tried(ta_cols)) <= DirectCap
        /\ Len(coalesce_columns(ta_cols)) <= 3
        /\ \A cols \in PossibleCandidates :
              /\ cols.names = ta_cols.names
              /\ {cols.direct[i] : i \in 1..Len(cols.direct)}
                    = {ta_cols.direct[i] : i \in 1..Len(ta_cols.direct)}
              /\ \A i \in 1..Len(cols.typed) :
                    score(cols.typed[i]) = score(ta_cols.typed[i])

====
